---- MODULE Spec2Model ----
(***************************************************************************)
(* webpath: the request executor (webpath/_http.py: http_request,          *)
(* aget_async), the Builder and Client that configure it                   *)
(* (webpath/core.py: WebPath, Client), the cache store they consult        *)
(* (webpath/cache.py: CacheConfig), the response navigator and the         *)
(* pagination walker (webpath/_http.py: WebResponse) and the download      *)
(* manager (webpath/downloads.py: download_file).                          *)
(*                                                                         *)
(* Time is a discrete clock `now` (the value time.time() returns); a rate  *)
(* limit of L requests per second is represented by its min_interval 1/L,  *)
(* in clock ticks.  A blocked thread (transport I/O, time.sleep) is a      *)
(* caller whose pc stays put while other callers and the clock move.       *)
(***************************************************************************)
EXTENDS Integers, Sequences, FiniteSets, TLC

VARIABLES
    now,        \* time.time()
    cache,      \* the cache store: (method, url) -> entry
    client,     \* Client._config
    wp,         \* the WebPath (Builder) the callers issue requests through
    req,        \* per caller: the http_request / aget call it is executing
    lastCallAt, \* history: when the previous transport call was issued (0: none)
    errIn,      \* a response handed to the status check of http_request
    errOut,     \* what the status check made of errIn
    doc,        \* a WebResponse whose JSON the caller navigates
    navOut,     \* the last navigator operation on doc and what it returned
    walk,       \* a paginate() generator and what its consumer has collected
    dl,         \* a download_file call and the destination it writes
    addr,       \* a WebPath, the WebPath it was derived from, the header dicts
    cfg,        \* a Client, the Client made from it by with_config, their dicts
    idna        \* _IDNA_CACHE, its lock, and the threads inside _idna

\* the executor and its configuration
execVars == <<now, cache, client, wp, req, lastCallAt, errIn, errOut>>
\* the response navigator, the pagination walker, the download manager
respVars == <<doc, navOut, walk, dl>>
\* URL values, copy-on-write configuration, the host memoization table
coreVars == <<addr, cfg, idna>>

vars == <<now, cache, client, wp, req, lastCallAt, errIn, errOut,
          doc, navOut, walk, dl, addr, cfg, idna>>

----------------------------------------------------------------------------
(* Bounds of the model *)

\* cache TTL configured in the model, in ticks
TTL == 1
\* min_interval = 1 / rate_limit configured in the model, in ticks
Interval == 2
\* the integer retry count configured in the model
RetryTotal == 1
\* how far the clock runs past its initial value
Horizon == 2
\* the largest max_pages a walk is started with
MaxPages == 3
\* the most blocks the body of a download comes in
MaxChunks == 2
\* how many times the body of one response is parsed before the model stops
\* following it
MaxParses == 2

\* time.time() is seconds since 1970: far more than any min_interval
Epoch == Interval + 1
MaxTime == Epoch + Horizon

Callers == {"c1", "c2"}
Verbs == {"get", "post"}
Urls == {"u1"}
Keys == Verbs \X Urls

----------------------------------------------------------------------------
(* Responses of the transport *)

\* a JSON body: its top-level kind and, for an object, its keys; the value
\* under key k of body b is <<b.tag, k>>
Body(kind, keys, tag) == [kind |-> kind, keys |-> keys, tag |-> tag]
NoBody == Body("text", {}, "none")
DocA == Body("object", {"id"}, "A")
DocB == Body("object", {"id"}, "B")
ErrDoc == Body("object", {"message"}, "E")

\* a response: status code, headers (the Retry-After header is the one the
\* program reads: present or not), body
Resp(status, retry_after, body) ==
    [status |-> status, retry_after |-> retry_after, body |-> body]
NoResp == Resp(0, FALSE, NoBody)

\* what one transport attempt can end in
Responses ==
    { Resp(200, FALSE, DocA), Resp(200, FALSE, DocB), Resp(304, FALSE, NoBody),
      Resp(404, FALSE, ErrDoc), Resp(429, TRUE, ErrDoc),
      Resp(500, FALSE, ErrDoc), Resp(503, FALSE, ErrDoc) }
Failures == {"conn_reset", "connect_timeout", "read_timeout"}

----------------------------------------------------------------------------
(* Builder (WebPath) and Client configuration *)

\* a retry configuration: None, an integer count, or a decision function
NoRetries == [kind |-> "none", total |-> 0]
CountRetries(n) == [kind |-> "count", total |-> n]
FunctionRetries == [kind |-> "function", total |-> 0]
RetryConfigs == {NoRetries, CountRetries(RetryTotal), FunctionRetries}

\* CacheConfig(ttl, cache_dir); ttl 0 stands for None.  One cache_dir, so
\* every CacheConfig reads and writes the same store.
CacheConfig(ttl) == [present |-> TRUE, ttl |-> ttl]
NoCacheConfig == [present |-> FALSE, ttl |-> 0]

\* WebPath.__init__: a bare Builder
WebPathInit(url) ==
    [ url |-> url,
      cache_config |-> NoCacheConfig,
      rate_limit |-> 0,
      last_request_time |-> 0,
      retries |-> NoRetries,
      session |-> FALSE ]

\* WebPath._clone: a new object, every slot copied, then the updates set
Clone(p, updates) ==
    [f \in DOMAIN p |-> IF f \in DOMAIN updates THEN updates[f] ELSE p[f]]

\* WebPath.__truediv__ / _replace: a new Builder for the joined URL
Join(p, url) == Clone(p, [url |-> url])

\* WebPath.with_cache
WithCache(p, ttl) == Clone(p, [cache_config |-> CacheConfig(ttl)])

\* WebPath.with_rate_limit
WithRateLimit(p, interval) ==
    Clone(p, [rate_limit |-> interval, last_request_time |-> 0])

\* WebPath.with_retries
WithRetries(p, retries) == Clone(p, [retries |-> retries])

\* Client.__init__: the configuration a Client keeps
ClientConfig(cache_ttl, retries, rate_limit) ==
    [cache_ttl |-> cache_ttl, retries |-> retries, rate_limit |-> rate_limit]
ClientConfigs ==
    { ClientConfig(t, r, i) : t \in {0, TTL}, r \in RetryConfigs, i \in {0, Interval} }

\* WebPath.apply_config, given Client._config: "cache_ttl", "session",
\* "retries" and "rate_limit" are always keys of it
ApplyConfig(p, config) ==
    Clone(p, [ cache_config |-> CacheConfig(config.cache_ttl),
               session |-> TRUE,
               retries |-> config.retries,
               rate_limit |-> config.rate_limit ])

\* Client.path: base_url / segment, then apply_config
ClientPathOf(config, url) == ApplyConfig(Join(WebPathInit("base"), url), config)

----------------------------------------------------------------------------
(* The cache store (webpath/cache.py) *)

\* a stored record: status code, headers, body, capture timestamp
Entry(status, headers, content, stored_at) ==
    [ status |-> status, headers |-> headers, content |-> content,
      stored_at |-> stored_at ]
NoEntry == Entry(0, FALSE, NoBody, 0)

\* an entry is evicted when now - stored_at > TTL
CacheExpired(entry, ttl, t) == t - entry.stored_at > ttl

\* CacheConfig.get: the entry for the key if a TTL is configured and the
\* entry exists and is unexpired
CacheGet(cc, store, key, t) ==
    IF cc.ttl = 0 \/ store[key] = NoEntry \/ CacheExpired(store[key], cc.ttl, t)
    THEN NoEntry
    ELSE store[key]

\* the store after CacheConfig.get: lazy expiry at read time
CacheAfterGet(cc, store, key, t) ==
    IF cc.ttl # 0 /\ store[key] # NoEntry /\ CacheExpired(store[key], cc.ttl, t)
    THEN [store EXCEPT ![key] = NoEntry]
    ELSE store

\* CacheConfig.set: when a TTL is configured, store the entry
CacheSet(cc, store, key, resp, t) ==
    IF cc.ttl = 0
    THEN store
    ELSE [store EXCEPT ![key] = Entry(resp.status, resp.retry_after, resp.body, t)]

----------------------------------------------------------------------------
(* http_request: error classification *)

ErrorKeys == <<"error", "message", "error_description", "detail">>

\* the " - {data[key]}" part of the message: the value under the first of
\* ErrorKeys the parsed body holds; <<>> when the body is no JSON object
\* (response.json() or the lookup raises, and the exception is swallowed)
ErrorDetails(body) ==
    IF body.kind # "object" \/ \A i \in 1..Len(ErrorKeys) : ErrorKeys[i] \notin body.keys
    THEN <<>>
    ELSE LET i == CHOOSE j \in 1..Len(ErrorKeys) :
                    /\ ErrorKeys[j] \in body.keys
                    /\ \A k \in 1..(j - 1) : ErrorKeys[k] \notin body.keys
         IN  <<body.tag, ErrorKeys[i]>>

\* which f-string of _get_helpful_error_message the status selects
MessageTemplate(status) ==
    IF status = 401 THEN "authentication_failed"
    ELSE IF status = 403 THEN "access_forbidden"
    ELSE IF status = 404 THEN "endpoint_not_found"
    ELSE IF status = 429 THEN "rate_limited"
    ELSE IF status >= 500 THEN "server_error"
    ELSE "http_status_from"

\* _get_helpful_error_message: the message as what it interpolates
\* (hostname, url, the numeric status, Retry-After, the error details)
HelpfulErrorMessage(response) ==
    LET t == MessageTemplate(response.status) IN
    [ template |-> t,
      hostname |-> t # "endpoint_not_found",
      url |-> t = "endpoint_not_found",
      status |-> t = "http_status_from",
      retry_after |-> t = "rate_limited",
      details |-> ErrorDetails(response.body) ]
NoMessage ==
    [ template |-> "none", hostname |-> FALSE, url |-> FALSE, status |-> FALSE,
      retry_after |-> FALSE, details |-> <<>> ]

\* mutant: only client errors are raised
IsStatusError_Only4xx(status) == 400 <= status /\ status < 500

\* line 427: the final response is an HTTP error
IsStatusError(status) == 400 <= status /\ status < 600

\* requests.exceptions: the classes an exception of class exc is an instance of
ExceptionClasses(exc) ==
    IF exc = "requests.ConnectTimeout"
    THEN {"requests.ConnectTimeout", "requests.ConnectionError", "requests.Timeout"}
    ELSE IF exc = "requests.ReadTimeout"
    THEN {"requests.ReadTimeout", "requests.Timeout"}
    ELSE {exc}

\* lines 422-425: the except clauses, tried in order; an exception neither
\* clause catches propagates as it is
TranslateException(exc) ==
    IF "requests.ConnectionError" \in ExceptionClasses(exc) THEN "ConnectionError"
    ELSE IF "requests.Timeout" \in ExceptionClasses(exc) THEN "TimeoutError"
    ELSE exc

----------------------------------------------------------------------------
(* http_request: the transport call and its retry adapter *)

\* mutant: every 5xx status is in the forcelist
StatusForcelist_All5xx == 500..599

\* _build_retry_adapter: status_forcelist
StatusForcelist == {502, 503, 504}
\* urllib3.Retry.RETRY_AFTER_STATUS_CODES (respect_retry_after_header is left
\* at its default, True)
RetryAfterStatusCodes == {413, 429, 503}

\* Retry.is_retry, for a Retry built by _build_retry_adapter (every verb is
\* an allowed method; total is truthy)
IsRetry(response) ==
    \/ response.status \in StatusForcelist
    \/ response.retry_after /\ response.status \in RetryAfterStatusCodes

\* the retries the transport call runs under: a session (Client.__init__
\* mounts the adapter on it when retries is truthy) takes precedence over
\* the retries argument
EffectiveRetries(p, config) ==
    LET r == IF p.session THEN config.retries ELSE p.retries IN
    IF r.kind = "count" /\ r.total = 0 THEN NoRetries ELSE r

\* what the exhausted adapter raises for a failed attempt
ExhaustedException(rc, failure) ==
    IF failure = "connect_timeout" THEN "requests.ConnectTimeout"
    ELSE IF failure = "read_timeout" /\ rc.kind = "none" THEN "requests.ReadTimeout"
    ELSE "requests.ConnectionError"

\* one attempt under retry configuration rc, `attempts` calls made so far
\* (this one included): "retry" (sleep the backoff, call again), "return"
\* (the response is final) or "raise".  A decision function handed to
\* Retry(total=...) is never called: Retry.increment computes total - 1,
\* which raises TypeError.
AdapterStep(rc, attempts, outcome) ==
    IF outcome.failure # "none"
    THEN IF rc.kind = "function"
         THEN [do |-> "raise", exc |-> "TypeError"]
         ELSE IF rc.kind = "count" /\ attempts <= rc.total
         THEN [do |-> "retry", exc |-> "none"]
         ELSE [do |-> "raise", exc |-> ExhaustedException(rc, outcome.failure)]
    ELSE IF rc.kind = "none" \/ ~IsRetry(outcome.resp)
         THEN [do |-> "return", exc |-> "none"]
         ELSE IF rc.kind = "function"
         THEN [do |-> "raise", exc |-> "TypeError"]
         ELSE IF attempts <= rc.total
         THEN [do |-> "retry", exc |-> "none"]
         ELSE [do |-> "return", exc |-> "none"]

----------------------------------------------------------------------------
(* http_request: cache and rate limit *)

\* mutant: a hit is found but not returned
UseCached_Dropped(p, cached) == p.cache_config.present /\ cached # NoEntry /\ FALSE

\* lines 404-406: serve the request from the cache
UseCached(p, cached) == p.cache_config.present /\ cached # NoEntry

\* mutant: every response that is not an error is cached
ShouldCache_Not4xx5xx(p, status) == p.cache_config.present /\ status < 400

\* line 431: write the response to the cache
ShouldCache(p, status) ==
    p.cache_config.present /\ 200 <= status /\ status < 300

\* lines 434-439: how long the rate limit makes the call sleep
RateSleep(p, t) ==
    IF p.rate_limit # 0 /\ t - p.last_request_time < p.rate_limit
    THEN p.rate_limit - (t - p.last_request_time)
    ELSE 0

----------------------------------------------------------------------------
(* The calls in progress *)

\* how a transport attempt ended: a failure, or a response
Outcome(failure, resp) == [failure |-> failure, resp |-> resp]
NoOutcome == Outcome("none", NoResp)
Outcomes ==
    {Outcome("none", r) : r \in Responses} \cup {Outcome(f, NoResp) : f \in Failures}

\* what a call hands to its caller: a WebResponse (kind "response") or the
\* exception raised (kind: its type)
Result(kind, status, headers, content, from_cache, msg) ==
    [ kind |-> kind, status |-> status, headers |-> headers, content |-> content,
      from_cache |-> from_cache, msg |-> msg ]
NoResult == Result("none", 0, FALSE, NoBody, FALSE, NoMessage)

\* WebResponse(resp, url)
WebResponse(resp) ==
    Result("response", resp.status, resp.retry_after, resp.body, FALSE, NoMessage)

\* WebResponse(CachedResponse(cached), url): status_code, headers and content
\* are the stored ones
CachedResponse(cached) ==
    Result("response", cached.status, cached.headers, cached.content, TRUE, NoMessage)

\* raise <kind>
Raised(kind) == Result(kind, 0, FALSE, NoBody, FALSE, NoMessage)

\* raise requests.HTTPError(_get_helpful_error_message(resp, url_str))
StatusError(resp) ==
    Result("requests.HTTPError", resp.status, FALSE, NoBody, FALSE,
           HelpfulErrorMessage(resp))

Idle ==
    [ pc |-> "idle", mode |-> "none", verb |-> "none", attempts |-> 0,
      wake |-> 0, outcome |-> NoOutcome, result |-> NoResult ]

AllIdle == \A c \in Callers : req[c].pc = "idle"

Key(c) == <<req[c].verb, wp.url>>

----------------------------------------------------------------------------
(* JSON values, as response.json() returns them *)

\* A Python str is a sequence of pieces: the letters of a key, or the
\* scheme, host and path of a URL.  A dict is the sequence of its
\* <<key, value>> items, in insertion order.
JNull == [t |-> "null"]
JNum(n) == [t |-> "num", n |-> n]
JBool(b) == [t |-> "bool", b |-> b]
JStr(s) == [t |-> "str", s |-> s]
JList(items) == [t |-> "list", items |-> items]
JObj(fields) == [t |-> "obj", fields |-> fields]
\* a body that is no JSON: response.json() raises
NotJson == [t |-> "text"]
\* object(): a fresh object, known by its identity only
Object(id) == [t |-> "object", id |-> id]

\* bool(v)
Truthy(v) ==
    IF v.t = "null" THEN FALSE
    ELSE IF v.t = "num" THEN v.n # 0
    ELSE IF v.t = "bool" THEN v.b
    ELSE IF v.t = "str" THEN v.s # <<>>
    ELSE IF v.t = "list" THEN v.items # <<>>
    ELSE IF v.t = "obj" THEN v.fields # <<>>
    ELSE TRUE

\* a is b
Is(a, b) ==
    IF a.t = "object" /\ b.t = "object" THEN a.id = b.id
    ELSE IF a.t = "object" \/ b.t = "object" THEN FALSE
    ELSE IF a.t \in {"null", "bool"} /\ a.t = b.t THEN a = b
    ELSE FALSE

\* key in d, d[key] for a dict d (JNull stands for KeyError here; callers
\* test HasKey first)
HasKey(d, key) == \E i \in 1..Len(d.fields) : d.fields[i][1] = key
GetKey(d, key) ==
    IF HasKey(d, key)
    THEN d.fields[CHOOSE i \in 1..Len(d.fields) : d.fields[i][1] = key][2]
    ELSE JNull

\* the state of the response side while only the executor is exercised
NoDoc == [body |-> NotJson, json_data |-> JNull, auto_follow |-> FALSE, parses |-> 0]
NoNav == [op |-> "none", expr |-> <<>>, key |-> [k |-> "int", name |-> <<>>, i |-> 0],
          case_sensitive |-> FALSE, dflt |-> JNull, result |-> JNull]
NoWalk == [pc |-> "none", stop |-> "none", raised |-> "none"]
NoDownload == [pc |-> "none", checksum |-> <<>>, received |-> 0]

----------------------------------------------------------------------------
(* Initial state *)

\* the Builder the callers start with is a bare WebPath("u1")
InitExecutor ==
    /\ now = Epoch
    /\ cache = [k \in Keys |-> NoEntry]
    /\ wp = WebPathInit("u1")
    /\ req = [c \in Callers |-> Idle]
    /\ lastCallAt = 0

\* the state of core.py's values while they are not exercised
NoUrl == [pc |-> "none"]
NoCfg == [pc |-> "none"]
NoIdna == [pc |-> "none"]

\* no WebPath is being derived, no Client reconfigured, no host converted
InitCore ==
    /\ addr = NoUrl
    /\ cfg = NoCfg
    /\ idna = NoIdna

\* no response is being navigated, walked or downloaded
InitResponses ==
    /\ doc = NoDoc
    /\ navOut = NoNav
    /\ walk = NoWalk
    /\ dl = NoDownload

Init ==
    /\ InitExecutor
    /\ client \in ClientConfigs
    /\ errIn = NoResp
    /\ errOut = NoResult
    /\ InitResponses
    /\ InitCore

\* the executor at rest, with a Client of default configuration
ExecutorIdle ==
    /\ InitExecutor
    /\ client = ClientConfig(0, NoRetries, 0)
    /\ errIn = NoResp
    /\ errOut = NoResult

----------------------------------------------------------------------------
(* Building a Builder; no call is in progress on the old one *)

\* Client.path(segment)
ClientPath(url) ==
    /\ AllIdle
    /\ wp' = ClientPathOf(client, url)
    /\ wp' # wp
    /\ UNCHANGED <<now, cache, client, req, lastCallAt, errIn, errOut>>
    /\ UNCHANGED respVars
    /\ UNCHANGED coreVars

\* a Builder configured by hand with the same settings:
\* WebPath(url).with_cache(ttl).with_rate_limit(limit).with_retries(retries),
\* each call made only for a setting that is given
ConfiguredPathOf(config, url) ==
    LET p0 == WebPathInit(url)
        p1 == IF config.cache_ttl # 0 THEN WithCache(p0, config.cache_ttl) ELSE p0
        p2 == IF config.rate_limit # 0 THEN WithRateLimit(p1, config.rate_limit) ELSE p1
    IN  IF config.retries.kind # "none" THEN WithRetries(p2, config.retries) ELSE p2

ConfiguredPath(url) ==
    /\ AllIdle
    /\ wp' = ConfiguredPathOf(client, url)
    /\ wp' # wp
    /\ UNCHANGED <<now, cache, client, req, lastCallAt, errIn, errOut>>
    /\ UNCHANGED respVars
    /\ UNCHANGED coreVars

----------------------------------------------------------------------------
(* http_request *)

\* the transport call is issued now; lastCallAt keeps the time of the last
\* one issued by http_request through a Builder of the Client
IssueCall == lastCallAt' = IF wp.session THEN now ELSE lastCallAt

\* lines 389-408: the cache check; a hit returns, a miss goes on to the
\* transport call (which blocks until Attempt)
Request(c, verb) ==
    /\ req[c].pc = "idle"
    /\ LET key == <<verb, wp.url>>
           cached == IF wp.cache_config.present
                     THEN CacheGet(wp.cache_config, cache, key, now)
                     ELSE NoEntry
       IN  /\ cache' = IF wp.cache_config.present
                       THEN CacheAfterGet(wp.cache_config, cache, key, now)
                       ELSE cache
           /\ IF UseCached(wp, cached)
              THEN /\ req' = [req EXCEPT ![c] =
                          [Idle EXCEPT !.pc = "done", !.mode = "sync", !.verb = verb,
                                       !.result = CachedResponse(cached)]]
                   /\ UNCHANGED lastCallAt
              ELSE /\ req' = [req EXCEPT ![c] =
                          [Idle EXCEPT !.pc = "inflight", !.mode = "sync",
                                       !.verb = verb, !.attempts = 1]]
                   /\ IssueCall
    /\ UNCHANGED <<now, client, wp, errIn, errOut>>
    /\ UNCHANGED respVars
    /\ UNCHANGED coreVars

\* lines 427-458 for the final response resp
Complete(c, resp) ==
    IF IsStatusError(resp.status)
    THEN /\ req' = [req EXCEPT ![c].pc = "done", ![c].result = StatusError(resp),
                               ![c].outcome = Outcome("none", resp)]
         /\ UNCHANGED <<cache, wp>>
    ELSE /\ cache' = IF ShouldCache(wp, resp.status)
                     THEN CacheSet(wp.cache_config, cache, Key(c), resp, now)
                     ELSE cache
         /\ IF RateSleep(wp, now) > 0
            THEN /\ req' = [req EXCEPT ![c].pc = "ratesleep",
                                       ![c].wake = now + RateSleep(wp, now),
                                       ![c].result = WebResponse(resp),
                                       ![c].outcome = Outcome("none", resp)]
                 /\ UNCHANGED wp
            ELSE /\ req' = [req EXCEPT ![c].pc = "done",
                                       ![c].result = WebResponse(resp),
                                       ![c].outcome = Outcome("none", resp)]
                 /\ wp' = IF wp.rate_limit # 0
                          THEN [wp EXCEPT !.last_request_time = now]
                          ELSE wp

\* lines 409-425: one attempt of the transport call ends in `outcome`; the
\* adapter retries it, or the call returns or raises and the rest of
\* http_request runs
Attempt(c, outcome) ==
    /\ req[c].pc = "inflight"
    /\ req[c].mode = "sync"
    /\ LET step == AdapterStep(EffectiveRetries(wp, client), req[c].attempts, outcome)
       IN  IF step.do = "retry"
           THEN /\ req' = [req EXCEPT ![c].pc = "backoff", ![c].outcome = outcome]
                /\ UNCHANGED <<cache, wp>>
           ELSE IF step.do = "raise"
           THEN /\ req' = [req EXCEPT ![c].pc = "done", ![c].outcome = outcome,
                                      ![c].result = Raised(TranslateException(step.exc))]
                /\ UNCHANGED <<cache, wp>>
           ELSE Complete(c, outcome.resp)
    /\ UNCHANGED <<now, client, lastCallAt, errIn, errOut>>
    /\ UNCHANGED respVars
    /\ UNCHANGED coreVars

\* the adapter's backoff sleep ends and it calls the transport again
Resume(c) ==
    /\ req[c].pc = "backoff"
    /\ req' = [req EXCEPT ![c].pc = "inflight", ![c].attempts = @ + 1]
    /\ IssueCall
    /\ UNCHANGED <<now, cache, client, wp, errIn, errOut>>
    /\ UNCHANGED respVars
    /\ UNCHANGED coreVars

\* lines 439-458: time.sleep(min_interval - elapsed) returns; the timestamp
\* is set and the response returned
Wake(c) ==
    /\ req[c].pc = "ratesleep"
    /\ now >= req[c].wake
    /\ wp' = [wp EXCEPT !.last_request_time = now]
    /\ req' = [req EXCEPT ![c].pc = "done"]
    /\ UNCHANGED <<now, cache, client, lastCallAt, errIn, errOut>>
    /\ UNCHANGED respVars
    /\ UNCHANGED coreVars

\* the caller takes the result; it may call again
Return(c) ==
    /\ req[c].pc = "done"
    /\ req' = [req EXCEPT ![c] = Idle]
    /\ UNCHANGED <<now, cache, client, wp, lastCallAt, errIn, errOut>>
    /\ UNCHANGED respVars
    /\ UNCHANGED coreVars

----------------------------------------------------------------------------
(* WebPath.aget / aget_async *)

\* aget_async up to `await client.get(...)`: the call is issued
Aget(c) ==
    /\ req[c].pc = "idle"
    /\ req' = [req EXCEPT ![c] =
           [Idle EXCEPT !.pc = "inflight", !.mode = "async", !.verb = "get",
                        !.attempts = 1]]
    /\ UNCHANGED <<now, cache, client, wp, lastCallAt, errIn, errOut>>
    /\ UNCHANGED respVars
    /\ UNCHANGED coreVars

\* what httpx raises for a failed call
HttpxException(failure) ==
    IF failure = "connect_timeout" THEN "httpx.ConnectTimeout"
    ELSE IF failure = "read_timeout" THEN "httpx.ReadTimeout"
    ELSE "httpx.ConnectError"

\* the await ends: return WebResponse(resp, url), whatever the status; an
\* exception of the transport propagates
AgetDone(c, outcome) ==
    /\ req[c].pc = "inflight"
    /\ req[c].mode = "async"
    /\ req' = [req EXCEPT ![c].pc = "done", ![c].outcome = outcome,
                          ![c].result = IF outcome.failure # "none"
                                        THEN Raised(HttpxException(outcome.failure))
                                        ELSE WebResponse(outcome.resp)]
    /\ UNCHANGED <<now, cache, client, wp, lastCallAt, errIn, errOut>>
    /\ UNCHANGED respVars
    /\ UNCHANGED coreVars

----------------------------------------------------------------------------
(* The clock *)

Tick ==
    /\ now < MaxTime
    /\ now' = now + 1
    /\ UNCHANGED <<cache, client, wp, req, lastCallAt, errIn, errOut>>
    /\ UNCHANGED respVars
    /\ UNCHANGED coreVars

----------------------------------------------------------------------------

\* one thread uses the library
Next ==
    \/ \E u \in Urls : ClientPath(u)
    \/ \E u \in Urls : ConfiguredPath(u)
    \/ \E v \in Verbs : Request("c1", v)
    \/ \E o \in Outcomes : Attempt("c1", o)
    \/ Resume("c1")
    \/ Wake("c1")
    \/ Return("c1")
    \/ Aget("c1")
    \/ \E o \in Outcomes : AgetDone("c1", o)
    \/ Tick

Spec == Init /\ [][Next]_vars

\* several threads (or tasks) use one Builder of a Client at the same time
InitConc ==
    /\ Init
    /\ client.rate_limit = 0

NextConc ==
    \/ \E u \in Urls : ClientPath(u)
    \/ \E c \in Callers, v \in Verbs : Request(c, v)
    \/ \E c \in Callers, o \in Outcomes : Attempt(c, o)
    \/ \E c \in Callers : Resume(c)
    \/ \E c \in Callers : Return(c)
    \/ \E c \in Callers : Aget(c)
    \/ \E c \in Callers, o \in Outcomes : AgetDone(c, o)

SpecConc == InitConc /\ [][NextConc]_vars

----------------------------------------------------------------------------
(* The status check of http_request, on any final response *)

MsgStatuses ==
    {200, 204, 301, 304, 400, 401, 403, 404, 418, 429, 499, 500, 502, 503, 599}
\* bodies: no JSON, a JSON list (its elements as keys), JSON objects
MsgBodies ==
    { NoBody, Body("list", {"error"}, "L"), Body("object", {}, "E"),
      Body("object", {"errors"}, "E"), Body("object", {"error"}, "E"),
      Body("object", {"message"}, "E"), Body("object", {"detail"}, "E"),
      Body("object", {"error_description", "detail"}, "E"),
      Body("object", {"message", "detail"}, "E"),
      Body("object", {"error", "message", "error_description", "detail"}, "E") }

InitMsg ==
    /\ InitExecutor
    /\ client = ClientConfig(0, NoRetries, 0)
    /\ errIn \in {Resp(st, ra, b) : st \in MsgStatuses, ra \in BOOLEAN, b \in MsgBodies}
    /\ errOut = NoResult
    /\ InitResponses
    /\ InitCore

\* lines 427-458 for the final response errIn: raise the status error or
\* return the response
CheckStatus ==
    /\ errOut = NoResult
    /\ errOut' = IF IsStatusError(errIn.status)
                 THEN StatusError(errIn)
                 ELSE WebResponse(errIn)
    /\ UNCHANGED <<now, cache, client, wp, req, lastCallAt, errIn>>
    /\ UNCHANGED respVars
    /\ UNCHANGED coreVars

NextMsg == CheckStatus

SpecMsg == InitMsg /\ [][NextMsg]_vars

----------------------------------------------------------------------------
(* WebResponse: the response navigator *)

\* WebResponse.json_data: parsed at first use; a body that does not parse
\* gives {}
JsonData(d) ==
    IF d.json_data.t # "null" THEN d.json_data
    ELSE IF d.body.t = "text" THEN JObj(<<>>)
    ELSE d.body

\* the pieces of a path expression: a field name, an index, the list and
\* the object wildcard, and a piece that is no JMESPath syntax
Field(name) == [k |-> "field", name |-> name, i |-> 0]
Index(i) == [k |-> "index", name |-> <<>>, i |-> i]
ListStar == [k |-> "liststar", name |-> <<>>, i |-> 0]
ObjStar == [k |-> "objstar", name |-> <<>>, i |-> 0]
BadToken == [k |-> "bad", name |-> <<>>, i |-> 0]

\* data[i] as JMESPath indexes a list: from the end when negative, null
\* when out of range
JmesIndex(items, i) ==
    LET pos == IF i < 0 THEN Len(items) + i + 1 ELSE i + 1
    IN  IF pos >= 1 /\ pos <= Len(items) THEN items[pos] ELSE JNull

RECURSIVE JmesEval(_, _)
\* a projection: the rest of the expression on every element, nulls dropped
JmesProject(rest, elems) ==
    LET each == [j \in 1..Len(elems) |-> JmesEval(rest, elems[j])]
    IN  JList(SelectSeq(each, LAMBDA v : v.t # "null"))

\* the value of a parsed expression on data
JmesEval(expr, data) ==
    IF expr = <<>> THEN data
    ELSE LET step == Head(expr)
             rest == Tail(expr)
         IN  IF step.k = "field"
             THEN IF data.t = "obj" /\ HasKey(data, step.name)
                  THEN JmesEval(rest, GetKey(data, step.name))
                  ELSE JNull
             ELSE IF step.k = "index"
             THEN IF data.t = "list"
                  THEN LET v == JmesIndex(data.items, step.i)
                       IN  IF v.t = "null" THEN JNull ELSE JmesEval(rest, v)
                  ELSE JNull
             ELSE IF step.k = "liststar"
             THEN IF data.t = "list" THEN JmesProject(rest, data.items) ELSE JNull
             ELSE IF data.t = "obj"
                  THEN JmesProject(rest, [j \in 1..Len(data.fields) |-> data.fields[j][2]])
                  ELSE JNull

\* jmespath.search(expression, data): a syntax error raises a
\* JMESPathError before data is looked at
JmesSearch(expr, data) ==
    IF \E j \in 1..Len(expr) : expr[j].k = "bad"
    THEN [raised |-> TRUE, value |-> JNull]
    ELSE [raised |-> FALSE, value |-> JmesEval(expr, data)]

\* WebResponse.find
Find(d, expression, default) ==
    IF expression = <<>> THEN default
    ELSE LET data == JsonData(d)
         IN  IF ~Truthy(data) THEN default
             ELSE LET r == JmesSearch(expression, data)
                  IN  IF r.raised THEN default
                      ELSE IF r.value.t # "null" THEN r.value
                      ELSE default

\* WebResponse.find_all
FindAll(d, expression) ==
    LET result == Find(d, expression, JList(<<>>))
    IN  IF result.t = "list" THEN result
        ELSE IF Truthy(result) THEN JList(<<result>>)
        ELSE JList(<<>>)

\* WebResponse.has_path: the default passed to find and the object the
\* result is compared with are two calls of object()
HasPath(d, expression) ==
    ~Is(Find(d, expression, Object(1)), Object(2))

\* str.lower(), letter by letter
UpperLetters == <<"A", "B", "C", "D", "E", "F", "I", "V">>
LowerLetters == <<"a", "b", "c", "d", "e", "f", "i", "v">>
LowerChar(ch) ==
    IF \E j \in 1..Len(UpperLetters) : UpperLetters[j] = ch
    THEN LowerLetters[CHOOSE j \in 1..Len(UpperLetters) : UpperLetters[j] = ch]
    ELSE ch
Lower(s) == [j \in 1..Len(s) |-> LowerChar(s[j])]

\* sub in s, for two str
Contains(sub, s) ==
    \E j \in 0..(Len(s) - Len(sub)) : SubSeq(s, j + 1, j + Len(sub)) = sub

\* the test of _search_recursive on one key
KeyMatch_Equal(search_key, key, case_sensitive) ==
    search_key = (IF case_sensitive THEN key ELSE Lower(key))
KeyMatch(search_key, key, case_sensitive) ==
    Contains(search_key, IF case_sensitive THEN key ELSE Lower(key))

IsContainer(v) == v.t \in {"obj", "list"}

RECURSIVE SearchRecursive(_, _, _)
\* the loop over obj.items(), from item j on
RECURSIVE SearchItems(_, _, _, _)
SearchItems(fields, j, search_key, case_sensitive) ==
    IF j > Len(fields) THEN <<>>
    ELSE LET key == fields[j][1]
             value == fields[j][2]
         IN  (IF KeyMatch(search_key, key, case_sensitive) THEN <<value>> ELSE <<>>)
             \o (IF IsContainer(value)
                 THEN SearchRecursive(value, search_key, case_sensitive)
                 ELSE <<>>)
             \o SearchItems(fields, j + 1, search_key, case_sensitive)

\* the loop over a list, from element j on
RECURSIVE SearchElems(_, _, _, _)
SearchElems(items, j, search_key, case_sensitive) ==
    IF j > Len(items) THEN <<>>
    ELSE (IF IsContainer(items[j])
          THEN SearchRecursive(items[j], search_key, case_sensitive)
          ELSE <<>>)
         \o SearchElems(items, j + 1, search_key, case_sensitive)

\* WebResponse._search_recursive
SearchRecursive(obj, search_key, case_sensitive) ==
    IF obj.t = "obj" THEN SearchItems(obj.fields, 1, search_key, case_sensitive)
    ELSE IF obj.t = "list" THEN SearchElems(obj.items, 1, search_key, case_sensitive)
    ELSE <<>>

\* WebResponse.search
Search(d, key, case_sensitive) ==
    IF key = <<>> THEN JList(<<>>)
    ELSE LET data == JsonData(d)
         IN  IF ~Truthy(data) THEN JList(<<>>)
             ELSE JList(SearchRecursive(data,
                                        IF case_sensitive THEN key ELSE Lower(key),
                                        case_sensitive))

\* the frames of _search_recursive on the stack at its deepest, and the
\* number of its calls, for the walk search() starts on obj
Max(a, b) == IF a >= b THEN a ELSE b
RECURSIVE SearchDepth(_)
RECURSIVE SearchCalls(_)
RECURSIVE DeepestChild(_, _)
RECURSIVE CallsBelow(_, _)
Children(obj) ==
    IF obj.t = "obj" THEN [j \in 1..Len(obj.fields) |-> obj.fields[j][2]]
    ELSE IF obj.t = "list" THEN obj.items
    ELSE <<>>
DeepestChild(vs, j) ==
    IF j > Len(vs) THEN 0
    ELSE Max(IF IsContainer(vs[j]) THEN SearchDepth(vs[j]) ELSE 0,
             DeepestChild(vs, j + 1))
CallsBelow(vs, j) ==
    IF j > Len(vs) THEN 0
    ELSE (IF IsContainer(vs[j]) THEN SearchCalls(vs[j]) ELSE 0) + CallsBelow(vs, j + 1)
SearchDepth(obj) == 1 + DeepestChild(Children(obj), 1)
SearchCalls(obj) == 1 + CallsBelow(Children(obj), 1)

\* the key of response / key: a str or an int
NameKey(name) == [k |-> "name", name |-> name, i |-> 0]
IntKey(i) == [k |-> "int", name |-> <<>>, i |-> i]

\* int(key): a str of one digit, or an int; anything else is a ValueError
Digits == {"0", "1", "2"}
DigitValue(ch) == IF ch = "0" THEN 0 ELSE IF ch = "1" THEN 1 ELSE 2
IntOf(key) ==
    IF key.k = "int" THEN [raised |-> FALSE, i |-> key.i]
    ELSE IF Len(key.name) = 1 /\ key.name[1] \in Digits
    THEN [raised |-> FALSE, i |-> DigitValue(key.name[1])]
    ELSE [raised |-> TRUE, i |-> 0]

\* value.startswith(('http://', 'https://')) for a str value
IsHttpUrl(value) ==
    /\ value.t = "str"
    /\ Len(value.s) >= 1
    /\ value.s[1] \in {"http://", "https://"}
\* urlparse(value).hostname
Hostname(value) == IF Len(value.s) >= 2 THEN value.s[2] ELSE ""

LocalHosts == {"localhost", "127.0.0.1", "0.0.0.0", "::1"}

\* what response / key gives: a value of the JSON, the response of a new
\* GET, or an exception
Followed(value) == [t |-> "request", s |-> value.s]
NavRaise(exc) == [t |-> "raise", exc |-> exc]

\* WebResponse.__truediv__, lines 160-171: data is a dict holding key
NavigateDict(d, value) ==
    IF IsHttpUrl(value)
    THEN IF ~d.auto_follow THEN value
         ELSE IF Hostname(value) \in LocalHosts THEN NavRaise("ValueError")
         ELSE Followed(value)
    ELSE value

\* lines 172-180: data is a list
NavigateList(d, value) ==
    IF IsHttpUrl(value) THEN Followed(value) ELSE value

\* data[idx] for a list: from the end when negative, IndexError when out
\* of range
ListItem(items, idx) ==
    LET pos == IF idx < 0 THEN Len(items) + idx + 1 ELSE idx + 1
    IN  IF pos >= 1 /\ pos <= Len(items)
        THEN [raised |-> FALSE, value |-> items[pos]]
        ELSE [raised |-> TRUE, value |-> JNull]

\* WebResponse.__truediv__
Navigate(d, key) ==
    LET data == JsonData(d)
    IN  IF data.t = "obj" /\ key.k = "name" /\ HasKey(data, key.name)
        THEN NavigateDict(d, GetKey(data, key.name))
        ELSE IF data.t = "list"
        THEN LET idx == IntOf(key)
             IN  IF idx.raised THEN NavRaise("KeyError")
                 ELSE LET item == ListItem(data.items, idx.i)
                      IN  IF item.raised THEN NavRaise("KeyError")
                          ELSE NavigateList(d, item.value)
        ELSE NavRaise("KeyError")

\* the letters of the keys and the URLs of the documents below
kId == <<"i", "d">>
kID == <<"I", "D">>
kVid == <<"v", "i", "d">>
kN == <<"n">>
kUrl == <<"u", "r", "l">>
kLo == <<"l", "o">>
PublicUrl == JStr(<<"https://", "api.example.com", "/p2">>)
LocalUrl == JStr(<<"http://", "localhost", "/admin">>)

\* {"id": 0, "ID": {"vid": false, "id": [{"id": ""}, 7]}, "n": null}
DocTree ==
    JObj(<< <<kId, JNum(0)>>,
            <<kID, JObj(<< <<kVid, JBool(FALSE)>>,
                           <<kId, JList(<<JObj(<< <<kId, JStr(<<>>)>> >>), JNum(7)>>)>> >>)>>,
            <<kN, JNull>> >>)
\* {"url": "https://api.example.com/p2", "lo": "http://localhost/admin", "id": "ab"}
DocLinks ==
    JObj(<< <<kUrl, PublicUrl>>, <<kLo, LocalUrl>>, <<kId, JStr(<<"a", "b">>)>> >>)
\* ["https://api.example.com/p2", "http://localhost/admin", 1]
DocList == JList(<<PublicUrl, LocalUrl, JNum(1)>>)

NavBodies == {NotJson, JNull, JList(<<>>), DocTree, DocLinks, DocList}

NavExprs ==
    { <<>>, <<Field(kId)>>, <<Field(kN)>>, <<Field(kUrl)>>, <<Field(<<"x">>)>>,
      <<Field(kID), Field(kVid)>>, <<Field(kID), Field(kId)>>,
      <<Field(kID), Field(kId), ListStar, Field(kId)>>,
      <<ListStar>>, <<ObjStar>>, <<ObjStar, Field(kId)>>,
      <<Index(0)>>, <<Index(2)>>, <<Index(-1)>>, <<Index(3)>>,
      <<Field(kId), BadToken>> }
NavDefaults == {JNull, JStr(<<"d">>)}
SearchKeys == {<<>>, kId, kID, kVid, kN, <<"x">>}
NavKeys ==
    {NameKey(n) : n \in {kId, kUrl, kLo, <<"x">>, <<"1">>}}
        \cup {IntKey(i) : i \in {-1, 0, 1, 2, 3}}

\* the caller holds a response of a Builder with auto-follow on or off
InitNav ==
    /\ ExecutorIdle
    /\ InitCore
    /\ doc \in {[body |-> b, json_data |-> JNull, auto_follow |-> a, parses |-> 0] :
                   b \in NavBodies, a \in BOOLEAN}
    /\ navOut = NoNav
    /\ walk = NoWalk
    /\ dl = NoDownload

\* every navigator operation reads json_data first, except on an empty
\* expression or key; the read calls response.json() while _json_data is
\* None, and `parses` counts these calls
Parsed(d) ==
    [d EXCEPT !.json_data = JsonData(d),
              !.parses = IF d.json_data.t = "null" THEN @ + 1 ELSE @]
\* the model follows a response until it was parsed MaxParses times
Parsable == doc.parses < MaxParses

CallFind(expression, default) ==
    /\ Parsable
    /\ navOut' = [NoNav EXCEPT !.op = "find", !.expr = expression,
                               !.dflt = default,
                               !.result = Find(doc, expression, default)]
    /\ doc' = IF expression = <<>> THEN doc ELSE Parsed(doc)
    /\ UNCHANGED <<walk, dl>>
    /\ UNCHANGED execVars
    /\ UNCHANGED coreVars

CallFindAll(expression) ==
    /\ Parsable
    /\ navOut' = [NoNav EXCEPT !.op = "find_all", !.expr = expression,
                               !.result = FindAll(doc, expression)]
    /\ doc' = IF expression = <<>> THEN doc ELSE Parsed(doc)
    /\ UNCHANGED <<walk, dl>>
    /\ UNCHANGED execVars
    /\ UNCHANGED coreVars

CallHasPath(expression) ==
    /\ Parsable
    /\ navOut' = [NoNav EXCEPT !.op = "has_path", !.expr = expression,
                               !.result = JBool(HasPath(doc, expression))]
    /\ doc' = IF expression = <<>> THEN doc ELSE Parsed(doc)
    /\ UNCHANGED <<walk, dl>>
    /\ UNCHANGED execVars
    /\ UNCHANGED coreVars

CallSearch(key, case_sensitive) ==
    /\ Parsable
    /\ navOut' = [NoNav EXCEPT !.op = "search", !.key = NameKey(key),
                               !.case_sensitive = case_sensitive,
                               !.result = Search(doc, key, case_sensitive)]
    /\ doc' = IF key = <<>> THEN doc ELSE Parsed(doc)
    /\ UNCHANGED <<walk, dl>>
    /\ UNCHANGED execVars
    /\ UNCHANGED coreVars

CallNavigate(key) ==
    /\ Parsable
    /\ navOut' = [NoNav EXCEPT !.op = "navigate", !.key = key,
                               !.result = Navigate(doc, key)]
    /\ doc' = Parsed(doc)
    /\ UNCHANGED <<walk, dl>>
    /\ UNCHANGED execVars
    /\ UNCHANGED coreVars

NextNav ==
    \/ \E e \in NavExprs, v \in NavDefaults : CallFind(e, v)
    \/ \E e \in NavExprs : CallFindAll(e)
    \/ \E e \in NavExprs : CallHasPath(e)
    \/ \E k \in SearchKeys, cs \in BOOLEAN : CallSearch(k, cs)
    \/ \E k \in NavKeys : CallNavigate(k)

SpecNav == InitNav /\ [][NextNav]_vars

----------------------------------------------------------------------------
(* WebResponse.paginate, paginate_all: the pagination walker *)

\* path.split('.'): a dotted path is its parts with "." pieces between
Split(path) == SelectSeq(path, LAMBDA p : p # ".")

\* WebResponse._extract_nested_value: current[part] for a str part is a
\* KeyError or a TypeError on anything but a dict holding it
RECURSIVE ExtractParts(_, _)
ExtractParts(current, parts) ==
    IF parts = <<>> THEN current
    ELSE IF current.t = "obj" /\ HasKey(current, Head(parts))
    THEN ExtractParts(GetKey(current, Head(parts)), Tail(parts))
    ELSE JNull
ExtractNestedValue(data, path) == ExtractParts(data, Split(path))

\* the conventional places of the next link, in the order they are tried
NextPatterns ==
    << <<"next">>, <<"next_url">>, <<"nextUrl">>, <<"next_page">>,
       <<"links", ".", "next">>, <<"pagination", ".", "next">>,
       <<"_links", ".", "next", ".", "href">> >>

\* WebResponse._find_next_url
FindNextUrl(data) ==
    IF data.t # "obj" THEN JNull
    ELSE LET usable(j) == LET v == ExtractNestedValue(data, NextPatterns[j])
                          IN  Truthy(v) /\ IsHttpUrl(v)
             hits == {j \in 1..Len(NextPatterns) : usable(j)}
         IN  IF hits = {} THEN JNull
             ELSE ExtractNestedValue(data,
                      NextPatterns[CHOOSE j \in hits : \A k \in hits : j <= k])

\* lines 295-298: the next URL of a page
NextUrlOf(page, next_key) ==
    IF next_key # <<>> THEN ExtractNestedValue(JsonData(page), next_key)
    ELSE FindNextUrl(JsonData(page))

\* WebPath(next_url): raises ValueError unless the str has an http(s)
\* scheme and a host
WebPathRaises(value) == ~(IsHttpUrl(value) /\ Len(value.s) >= 2)

\* the container keys paginate_all probes, in order
ContainerKeys == <<"data", "results", "items", "records", "content">>

\* the body of the loop of paginate_all: what one page adds to all_results
PageItems_AnyValue(page_data, data_key) ==
    IF data_key # <<>>
    THEN LET items == ExtractNestedValue(page_data, data_key)
         IN  IF items.t = "list" THEN items.items
             ELSE IF items.t # "null" THEN <<items>>
             ELSE <<>>
    ELSE IF page_data.t = "list" THEN page_data.items
    ELSE IF page_data.t = "obj"
    THEN LET hits == {j \in 1..Len(ContainerKeys) : HasKey(page_data, ContainerKeys[j])}
         IN  IF hits = {} THEN <<page_data>>
             ELSE LET v == GetKey(page_data,
                               ContainerKeys[CHOOSE j \in hits : \A k \in hits : j <= k])
                  IN  IF v.t = "list" THEN v.items ELSE <<v>>
    ELSE <<>>
PageItems(page_data, data_key) ==
    IF data_key # <<>>
    THEN LET items == ExtractNestedValue(page_data, data_key)
         IN  IF items.t = "list" THEN items.items
             ELSE IF items.t # "null" THEN <<items>>
             ELSE <<>>
    ELSE IF page_data.t = "list" THEN page_data.items
    ELSE IF page_data.t = "obj"
    THEN LET hits == {j \in 1..Len(ContainerKeys) :
                         /\ HasKey(page_data, ContainerKeys[j])
                         /\ GetKey(page_data, ContainerKeys[j]).t = "list"}
         IN  IF hits = {} THEN <<page_data>>
             ELSE GetKey(page_data,
                         ContainerKeys[CHOOSE j \in hits : \A k \in hits : j <= k]).items
    ELSE <<>>

\* a page: a WebResponse with the URL it was served from
Page(url, body) ==
    [url |-> url, body |-> body, json_data |-> JNull, auto_follow |-> FALSE, parses |-> 0]

\* line 288: the cycle guard
AlreadyVisited_Never(url, visited_urls) == FALSE
AlreadyVisited(url, visited_urls) == url \in visited_urls

\* the generator at `break` or at the end of its loop
WalkEnds(w, why) == [w EXCEPT !.pc = "end", !.stop = why]

\* lines 306-307: WebPath(next_url).get() raised exc
OnFetchError_Propagates(w, exc) == [w EXCEPT !.pc = "end", !.stop = "error", !.raised = exc]
OnFetchError(w, exc) == WalkEnds(w, "error")

\* the URLs of the pages, and next links that are no URL a Builder accepts
P1 == <<"https://", "api.example.com", "/p1">>
P2 == <<"https://", "api.example.com", "/p2">>
P3 == <<"https://", "api.example.com", "/p3">>
PageUrls == {P1, P2, P3}
RelativeLink == <<"/p2">>

\* {"next": P2, "items": [1, 2]}
BodyNextItems == JObj(<< <<"next", JStr(P2)>>, <<"items", JList(<<JNum(1), JNum(2)>>)>> >>)
\* {"links": {"next": P3}, "data": {"k": 1}, "results": [3]}
BodyLinksResults ==
    JObj(<< <<"links", JObj(<< <<"next", JStr(P3)>> >>)>>,
            <<"data", JObj(<< <<"k", JNum(1)>> >>)>>,
            <<"results", JList(<<JNum(3)>>)>> >>)
\* {"next": P1, "data": [4]}
BodyBackToFirst == JObj(<< <<"next", JStr(P1)>>, <<"data", JList(<<JNum(4)>>)>> >>)
\* {"next": "/p2", "total": 1}
BodyRelativeNext == JObj(<< <<"next", JStr(RelativeLink)>>, <<"total", JNum(1)>> >>)
\* [5, 6] and 7
BodyList == JList(<<JNum(5), JNum(6)>>)
BodyScalar == JNum(7)

PageBodies ==
    { BodyNextItems, BodyLinksResults, BodyBackToFirst, BodyRelativeNext,
      BodyList, BodyScalar, NotJson }

\* how WebPath(next_url).get() ends: a transport failure, or a response
\* with a status, the URL it came from and a body
PageOutcome(failure, status, url, body) ==
    [failure |-> failure, status |-> status, url |-> url, body |-> body]
PageOutcomes ==
    {PageOutcome(f, 0, <<>>, NotJson) : f \in Failures}
        \cup {PageOutcome("none", st, P1, NotJson) : st \in {404, 503}}
        \cup {PageOutcome("none", 200, u, b) : u \in PageUrls, b \in PageBodies}

\* the exception http_request raises for an outcome of a Builder without
\* retries, "none" when it returns the response
FetchException(outcome) ==
    IF outcome.failure # "none"
    THEN TranslateException(ExhaustedException(NoRetries, outcome.failure))
    ELSE IF IsStatusError(outcome.status) THEN "requests.HTTPError"
    ELSE "none"

NextKeys == {<<>>, <<"next">>, <<"links", ".", "next">>}
DataKeys == {<<>>, <<"items">>, <<"data", ".", "k">>}

\* paginate_all(max_pages, next_key, data_key) is called on a first page;
\* the generator is at the top of its loop
InitPage ==
    /\ ExecutorIdle
    /\ InitCore
    /\ doc = NoDoc
    /\ navOut = NoNav
    /\ dl = NoDownload
    /\ \E m \in 0..MaxPages, nk \in NextKeys, dk \in DataKeys, b \in PageBodies :
           walk = [ pc |-> "head", max_pages |-> m, next_key |-> nk, data_key |-> dk,
                    current_page |-> Page(P1, b), page_count |-> 0,
                    visited_urls |-> {}, yielded |-> <<>>, all_results |-> <<>>,
                    target |-> JNull, stop |-> "none", raised |-> "none" ]

\* lines 285-292: the loop condition, the cycle guard, the yield
PageYield ==
    /\ walk.pc = "head"
    /\ walk' = IF ~(walk.page_count < walk.max_pages)
               THEN WalkEnds(walk, "max_pages")
               ELSE IF AlreadyVisited(walk.current_page.url, walk.visited_urls)
               THEN WalkEnds(walk, "visited")
               ELSE [walk EXCEPT !.pc = "yielded",
                                 !.visited_urls = @ \cup {walk.current_page.url},
                                 !.yielded = Append(@, walk.current_page)]
    /\ UNCHANGED <<doc, navOut, dl>>
    /\ UNCHANGED execVars
    /\ UNCHANGED coreVars

\* lines 344-361, then 293-305: paginate_all takes the items of the page
\* it was handed and asks for the next one; the generator finds the next
\* URL and calls WebPath(next_url).get()
PageAdvance ==
    /\ walk.pc = "yielded"
    /\ LET page == Parsed(walk.current_page)
           next_url == NextUrlOf(page, walk.next_key)
           w == [walk EXCEPT !.all_results = @ \o PageItems(JsonData(page), walk.data_key),
                             !.current_page = page,
                             !.page_count = @ + 1]
       IN  walk' = IF ~Truthy(next_url) \/ next_url.t # "str"
                   THEN WalkEnds(w, "no_next")
                   ELSE IF WebPathRaises(next_url)
                   THEN OnFetchError(w, "ValueError")
                   ELSE [w EXCEPT !.pc = "fetch", !.target = next_url]
    /\ UNCHANGED <<doc, navOut, dl>>
    /\ UNCHANGED execVars
    /\ UNCHANGED coreVars

\* lines 305-307: the GET of the next page returns or raises
PageFetched(outcome) ==
    /\ walk.pc = "fetch"
    /\ walk' = IF FetchException(outcome) # "none"
               THEN OnFetchError(walk, FetchException(outcome))
               ELSE [walk EXCEPT !.pc = "head",
                                 !.current_page = Page(outcome.url, outcome.body),
                                 !.target = JNull]
    /\ UNCHANGED <<doc, navOut, dl>>
    /\ UNCHANGED execVars
    /\ UNCHANGED coreVars

NextPage ==
    \/ PageYield
    \/ PageAdvance
    \/ \E o \in PageOutcomes : PageFetched(o)

\* paginate_all drives the generator until it ends, and every GET returns
\* or raises
SpecPage == InitPage /\ [][NextPage]_vars /\ WF_vars(NextPage)

----------------------------------------------------------------------------
(* download_file: the download manager *)

\* retries = 3, the default of download_file
DownloadRetries == 3

\* the destination path: no file, or a file and its blocks
NoFile == [exists |-> FALSE, data |-> <<>>]
File(data) == [exists |-> TRUE, data |-> data]

\* hashlib: the state of a new hasher, its update with a block, and
\* hexdigest(), two lower-case hexadecimal digits
HexDigits ==
    <<"0", "1", "2", "3", "4", "5", "6", "7", "8", "9", "a", "b", "c", "d", "e", "f">>
HashNew == 7
HashUpdate(h, block) == (h * 5 + block) % 256
HexDigest(h) == <<HexDigits[(h \div 16) + 1], HexDigits[(h % 16) + 1]>>

\* line 27: hashlib.new(algorithm) if checksum else None (-1: None)
NoHasher == 0 - 1
NewHasher(checksum) == IF checksum # <<>> THEN HashNew ELSE NoHasher

\* line 52: the test for a mismatch
ChecksumDiffers_CaseSensitive(checksum, hasher) ==
    /\ checksum # <<>>
    /\ hasher # NoHasher
    /\ HexDigest(hasher) # checksum
ChecksumDiffers(checksum, hasher) ==
    /\ checksum # <<>>
    /\ hasher # NoHasher
    /\ HexDigest(hasher) # Lower(checksum)

\* what is raised in the middle of the loop without being an Exception: an
\* interrupt of the caller (Ctrl-C, sys.exit() in a signal handler)
Interrupts == {"KeyboardInterrupt", "SystemExit"}
\* line 44: `except Exception` is entered for the instances of Exception
Caught(exc) == exc \notin Interrupts

\* line 27: hashlib.new raises ValueError for a name it does not know
Algorithms == {"sha256", "sha-256"}
UnknownAlgorithm(checksum, algorithm) == checksum # <<>> /\ algorithm # "sha256"

\* lines 44-47: the handler of any Exception: the file is closed by now
AfterFailure_KeepsFile(file) == file
AfterFailure(file) == NoFile

\* how download_file ends
Returned == [kind |-> "returned", template |-> "none", expected |-> <<>>, actual |-> <<>>]
DlRaised(exc) == [kind |-> exc, template |-> "none", expected |-> <<>>, actual |-> <<>>]
\* ValueError(f"Checksum mismatch for {dest.name}: expected {checksum}, got {hexdigest}")
ChecksumMismatch(checksum, hasher) ==
    [kind |-> "ValueError", template |-> "Checksum mismatch for {name}: expected {expected}, got {actual}",
     expected |-> checksum, actual |-> HexDigest(hasher)]
NoDlResult == [kind |-> "none", template |-> "none", expected |-> <<>>, actual |-> <<>>]

\* the exception http_request raises for the outcome of the GET, with the
\* retries of download_file; "none" when it returns the response
RequestException(outcome) ==
    IF outcome.failure # "none"
    THEN TranslateException(ExhaustedException(CountRetries(DownloadRetries), outcome.failure))
    ELSE IF IsStatusError(outcome.resp.status) THEN "requests.HTTPError"
    ELSE "none"

\* what ends the loop over r.iter_content(chunk) early: the transport
\* (requests raises these untranslated) or the write to disk
StreamFailures ==
    {"requests.ChunkedEncodingError", "requests.ConnectionError", "OSError"}

\* the blocks iter_content yields (0: an empty block), and the streams of
\* the model
Blocks == {0, 1, 2}
RECURSIVE StreamsOfLen(_)
StreamsOfLen(n) ==
    IF n = 0 THEN {<<>>}
    ELSE {Append(s, b) : s \in StreamsOfLen(n - 1), b \in Blocks}
Streams == UNION {StreamsOfLen(n) : n \in 0..MaxChunks}

\* hexdigest() of a whole stream, and str.upper() of a digest
RECURSIVE HashOf(_, _)
HashOf(stream, h) ==
    IF stream = <<>> THEN h
    ELSE HashOf(Tail(stream), IF Head(stream) # 0 THEN HashUpdate(h, Head(stream)) ELSE h)
UpperChar(ch) ==
    IF \E j \in 1..Len(LowerLetters) : LowerLetters[j] = ch
    THEN UpperLetters[CHOOSE j \in 1..Len(LowerLetters) : LowerLetters[j] = ch]
    ELSE ch
Upper(s) == [j \in 1..Len(s) |-> UpperChar(s[j])]

\* the checksums a caller may pass for a stream: none, its digest as
\* hexdigest() prints it, the same in upper case, the digest of other data
ChecksumsFor(stream) ==
    { <<>>, HexDigest(HashOf(stream, HashNew)), Upper(HexDigest(HashOf(stream, HashNew))),
      HexDigest(HashOf(<<1, 1, 1>>, HashNew)) }

\* download_file(url, dest, checksum = ck) is called; dest may hold an
\* older file
InitDl ==
    /\ ExecutorIdle
    /\ InitCore
    /\ doc = NoDoc
    /\ navOut = NoNav
    /\ walk = NoWalk
    /\ \E s \in Streams, old \in {NoFile, File(<<2, 2>>)} :
       \E ck \in ChecksumsFor(s) :
       \E alg \in Algorithms :
           dl = [ pc |-> "request", stream |-> s, checksum |-> ck, algorithm |-> alg,
                  received |-> 0, hasher |-> NoHasher, before |-> old, file |-> old,
                  opened |-> FALSE, result |-> NoDlResult ]

\* lines 23-35: the GET raises, or returns a response; then the hasher is
\* made and dest is opened for writing
DlRequest(outcome) ==
    /\ dl.pc = "request"
    /\ dl' = IF RequestException(outcome) # "none"
             THEN [dl EXCEPT !.pc = "done",
                             !.file = AfterFailure(dl.file),
                             !.result = DlRaised(RequestException(outcome))]
             ELSE IF UnknownAlgorithm(dl.checksum, dl.algorithm)
             THEN [dl EXCEPT !.pc = "done",
                             !.file = AfterFailure(dl.file),
                             !.result = DlRaised("ValueError")]
             ELSE [dl EXCEPT !.pc = "streaming",
                             !.hasher = NewHasher(dl.checksum),
                             !.file = File(<<>>),
                             !.opened = TRUE]
    /\ UNCHANGED <<doc, navOut, walk>>
    /\ UNCHANGED execVars
    /\ UNCHANGED coreVars

\* lines 36-42: one block of the body
DlBlock ==
    /\ dl.pc = "streaming"
    /\ dl.received < Len(dl.stream)
    /\ LET block == dl.stream[dl.received + 1]
       IN  dl' = IF block # 0
                 THEN [dl EXCEPT !.received = @ + 1,
                                 !.file = File(Append(dl.file.data, block)),
                                 !.hasher = IF @ # NoHasher THEN HashUpdate(@, block) ELSE @]
                 ELSE [dl EXCEPT !.received = @ + 1]
    /\ UNCHANGED <<doc, navOut, walk>>
    /\ UNCHANGED execVars
    /\ UNCHANGED coreVars

\* lines 36-47: reading or writing the next block raises, or the caller is
\* interrupted there; the with-block closes the file, the handler runs for
\* an Exception
DlStreamFails(exc) ==
    /\ dl.pc = "streaming"
    /\ dl' = [dl EXCEPT !.pc = "done",
                        !.file = IF Caught(exc) THEN AfterFailure(dl.file) ELSE dl.file,
                        !.result = DlRaised(exc)]
    /\ UNCHANGED <<doc, navOut, walk>>
    /\ UNCHANGED execVars
    /\ UNCHANGED coreVars

\* lines 52-58: the body is complete
DlFinish ==
    /\ dl.pc = "streaming"
    /\ dl.received = Len(dl.stream)
    /\ dl' = IF ChecksumDiffers(dl.checksum, dl.hasher)
             THEN [dl EXCEPT !.pc = "done",
                             !.file = NoFile,
                             !.result = ChecksumMismatch(dl.checksum, dl.hasher)]
             ELSE [dl EXCEPT !.pc = "done", !.result = Returned]
    /\ UNCHANGED <<doc, navOut, walk>>
    /\ UNCHANGED execVars
    /\ UNCHANGED coreVars

NextDl ==
    \/ \E o \in Outcomes : DlRequest(o)
    \/ DlBlock
    \/ \E x \in StreamFailures \cup Interrupts : DlStreamFails(x)
    \/ DlFinish

SpecDl == InitDl /\ [][NextDl]_vars

----------------------------------------------------------------------------
(* Strings (str, urllib.parse), as sequences of characters *)

\* str.strip(): whitespace removed at both ends
RECURSIVE Strip(_)
Strip(s) ==
    IF s # <<>> /\ Head(s) = " " THEN Strip(Tail(s))
    ELSE IF s # <<>> /\ s[Len(s)] = " " THEN Strip(SubSeq(s, 1, Len(s) - 1))
    ELSE s

\* str.lstrip("/"), str.rstrip("/"), str.endswith(c)
RECURSIVE LStrip(_)
LStrip(s) == IF s # <<>> /\ Head(s) = "/" THEN LStrip(Tail(s)) ELSE s
RECURSIVE RStrip(_)
RStrip(s) ==
    IF s # <<>> /\ s[Len(s)] = "/" THEN RStrip(SubSeq(s, 1, Len(s) - 1)) ELSE s
EndsWith(s, c) == s # <<>> /\ s[Len(s)] = c

\* the first position of a character of `stops` in s; Len(s) + 1 when none
RECURSIVE FirstOf(_, _)
FirstOf(s, stops) ==
    IF s = <<>> \/ Head(s) \in stops THEN 1 ELSE 1 + FirstOf(Tail(s), stops)
Has(s, c) == FirstOf(s, {c}) <= Len(s)
\* s.split(c, 1): what stands before and after the first c
Before(s, c) == SubSeq(s, 1, FirstOf(s, {c}) - 1)
After(s, c) == SubSeq(s, FirstOf(s, {c}) + 1, Len(s))
\* s.split(c)[-1]
RECURSIVE LastPiece(_, _)
LastPiece(s, c) == IF Has(s, c) THEN LastPiece(After(s, c), c) ELSE s
\* s.split(c): the pieces between the separators
RECURSIVE Pieces(_, _)
Pieces(s, c) ==
    IF Has(s, c) THEN <<Before(s, c)>> \o Pieces(After(s, c), c) ELSE <<s>>
\* c.join(pieces)
RECURSIVE JoinWith(_, _)
JoinWith(pieces, c) ==
    IF pieces = <<>> THEN <<>>
    ELSE IF Len(pieces) = 1 THEN pieces[1]
    ELSE pieces[1] \o <<c>> \o JoinWith(Tail(pieces), c)

\* characters quote() and urlencode() never escape
Unreserved == {"a", "b", "c", "f", "h", "p", "s", "t", "x", "y", "1", "2", "8"}
\* the escape of a character that is not kept
Escape(c) ==
    CASE c = " " -> <<"%", "2", "0">>
      [] c = "%" -> <<"%", "2", "5">>
      [] c = "&" -> <<"%", "2", "6">>
      [] c = "+" -> <<"%", "2", "B">>
      [] c = "/" -> <<"%", "2", "F">>
      [] c = ":" -> <<"%", "3", "A">>
      [] c = "=" -> <<"%", "3", "D">>
      [] c = "?" -> <<"%", "3", "F">>
      [] c = "#" -> <<"%", "2", "3">>
      [] c = "@" -> <<"%", "4", "0">>
      [] OTHER -> <<c>>
Escaped == {" ", "%", "&", "+", "/", ":", "=", "?", "#", "@"}

\* urllib.parse.quote(s): safe = "/"
RECURSIVE Quote(_)
Quote(s) ==
    IF s = <<>> THEN <<>>
    ELSE (IF Head(s) = "/" THEN <<"/">> ELSE Escape(Head(s))) \o Quote(Tail(s))

\* urllib.parse.quote_plus(s, safe = ":/"), as urlencode applies it
RECURSIVE QuotePlus(_)
QuotePlus(s) ==
    IF s = <<>> THEN <<>>
    ELSE (IF Head(s) = " " THEN <<"+">>
          ELSE IF Head(s) \in {":", "/"} THEN <<Head(s)>>
          ELSE Escape(Head(s))) \o QuotePlus(Tail(s))

\* urllib.parse.unquote_plus, as parse_qsl applies it: "+" is a space and
\* "%XX" the character it escapes
RECURSIVE Unquote(_)
Unquote(s) ==
    IF s = <<>> THEN <<>>
    ELSE IF Head(s) = "+" THEN <<" ">> \o Unquote(Tail(s))
    ELSE IF Head(s) = "%" /\ Len(s) >= 3
            /\ \E c \in Escaped : Escape(c) = SubSeq(s, 1, 3)
    THEN <<CHOOSE c \in Escaped : Escape(c) = SubSeq(s, 1, 3)>>
         \o Unquote(SubSeq(s, 4, Len(s)))
    ELSE <<Head(s)>> \o Unquote(Tail(s))

\* urllib.parse.urlsplit(url): scheme, netloc, path, query, fragment
UrlSplit(text) ==
    LET \* the fragment, then the query, are split off what follows the netloc
        Local(scheme, netloc, local) ==
            [ scheme |-> scheme,
              netloc |-> netloc,
              path |-> Before(Before(local, "#"), "?"),
              query |-> After(Before(local, "#"), "?"),
              fragment |-> After(local, "#") ]
        \* the netloc stands between "//" and the next "/", "?" or "#"
        Netloc(scheme, tail, delim) ==
            Local(scheme, SubSeq(tail, 1, delim - 1), SubSeq(tail, delim, Len(tail)))
        Rest(scheme, rest) ==
            IF Len(rest) >= 2 /\ rest[1] = "/" /\ rest[2] = "/"
            THEN Netloc(scheme, SubSeq(rest, 3, Len(rest)),
                        FirstOf(SubSeq(rest, 3, Len(rest)), {"/", "?", "#"}))
            ELSE Local(scheme, <<>>, rest)
        \* the scheme stands before the first ":", when only scheme characters do
        Scheme(i) ==
            IF 1 < i /\ i <= Len(text) /\ \A k \in 1..(i - 1) : text[k] \in Unreserved
            THEN Rest(SubSeq(text, 1, i - 1), SubSeq(text, i + 1, Len(text)))
            ELSE Rest(<<>>, text)
    IN  Scheme(FirstOf(text, {":"}))

\* urllib.parse.urlunsplit(parts), for an http or https scheme
UrlUnsplit(parts) ==
    LET path == IF parts.path # <<>> /\ Head(parts.path) # "/"
                THEN <<"/">> \o parts.path ELSE parts.path
    IN  parts.scheme \o <<":", "/", "/">> \o parts.netloc \o path
        \o (IF parts.query # <<>> THEN <<"?">> \o parts.query ELSE <<>>)
        \o (IF parts.fragment # <<>> THEN <<"#">> \o parts.fragment ELSE <<>>)

\* urllib.parse.parse_qsl(query, keep_blank_values=True): the (name, value)
\* pairs in order; an empty piece between two "&" is skipped
ParseQsl(query) ==
    LET fields == SelectSeq(Pieces(query, "&"), LAMBDA f : f # <<>>)
    IN  [j \in 1..Len(fields) |->
            <<Unquote(Before(fields[j], "=")), Unquote(After(fields[j], "="))>>]

\* dict(pairs): a later pair of a key replaces the value of the earlier one,
\* at the place of the earlier one
HasName(d, k) == \E j \in 1..Len(d) : d[j][1] = k
SetItem(d, k, v) ==
    IF HasName(d, k)
    THEN [j \in 1..Len(d) |-> IF d[j][1] = k THEN <<k, v>> ELSE d[j]]
    ELSE Append(d, <<k, v>>)
PopItem(d, k) == SelectSeq(d, LAMBDA kv : kv[1] # k)
RECURSIVE Dict(_)
Dict(pairs) ==
    IF pairs = <<>> THEN <<>>
    ELSE LET kv == pairs[Len(pairs)]
         IN  SetItem(Dict(SubSeq(pairs, 1, Len(pairs) - 1)), kv[1], kv[2])

\* a keyword argument of with_query: None, a list, or a scalar
None == [kind |-> "none", vals |-> <<>>]
Scalar(v) == [kind |-> "scalar", vals |-> <<v>>]
List(vs) == [kind |-> "list", vals |-> vs]

\* urllib.parse.urlencode(merged, doseq=True, safe=":/"): one name=value per
\* scalar, one per element of a list
RECURSIVE UrlEncodePairs(_)
UrlEncodePairs(d) ==
    IF d = <<>> THEN <<>>
    ELSE [j \in 1..Len(d[1][2].vals) |->
             QuotePlus(d[1][1]) \o <<"=">> \o QuotePlus(d[1][2].vals[j])]
         \o UrlEncodePairs(Tail(d))
UrlEncode(d) == JoinWith(UrlEncodePairs(d), "&")

----------------------------------------------------------------------------
(* WebPath: URL values and their derivation (webpath/core.py) *)

\* a header dict; a name it does not hold maps to Absent
HeaderNames == {"X", "Y"}
Absent == "absent"
EmptyDict == [k \in HeaderNames |-> Absent]
HeaderX == [EmptyDict EXCEPT !["X"] = "1"]
HeaderY == [EmptyDict EXCEPT !["Y"] = "2"]
\* dict.update(other)
Update(d, other) ==
    [k \in HeaderNames |-> IF other[k] # Absent THEN other[k] ELSE d[k]]
\* the dicts are objects of a heap, named by their position in it; a new
\* dict takes the next position
Alloc(heap, d) == Append(heap, d)
NewId(heap) == Len(heap) + 1

\* WebPath.__init__, lines 159-172: _trailing_slash and the default slots
TrailingSlash(text, parts) == EndsWith(text, "/") /\ ~EndsWith(parts.path, "/")
Slots(text, headers) ==
    [ url |-> text,
      parts |-> UrlSplit(text),
      trailing_slash |-> TrailingSlash(text, UrlSplit(text)),
      cache_config |-> NoCacheConfig,
      allow_auto_follow |-> FALSE,
      enable_logging |-> FALSE,
      rate_limit |-> 0,
      last_request_time |-> 0,
      default_headers |-> headers,
      retries |-> NoRetries,
      backoff |-> "0.3",
      jitter |-> "0.0",
      timeout |-> "None",
      session |-> "None" ]
NoWebPath == Slots(<<>>, 0)

\* what an operation gives back: the heap after it, and the WebPath returned
\* or the exception raised
Gives(heap, ret) == [heap |-> heap, ret |-> ret, raised |-> "none"]
UrlRaises(heap, exc) == [heap |-> heap, ret |-> NoWebPath, raised |-> exc]

\* WebPath.__init__, lines 147-158: the checks on the stripped text
HasNetloc(parts) == parts.netloc # <<>>
InvalidUrl(text) ==
    LET Invalid(parts) ==
            \/ parts.scheme = <<>>
            \/ parts.scheme \notin {<<"h", "t", "t", "p">>, <<"h", "t", "t", "p", "s">>}
            \/ ~HasNetloc(parts)
    IN  Strip(text) = <<>> \/ Invalid(UrlSplit(Strip(text)))
WebPathNew(heap, text) ==
    IF InvalidUrl(text) THEN UrlRaises(heap, "ValueError")
    ELSE Gives(Alloc(heap, EmptyDict), Slots(Strip(text), NewId(heap)))

\* WebPath.host without the IDNA conversion: the netloc after the userinfo
\* and before the port
UrlHost(self) == Before(LastPiece(self.parts.netloc, "@"), ":")

\* WebPath._clone(**updates): WebPath(self._url), every slot but _url,
\* _parts, _trailing_slash and _cache copied from self (the header dict by
\* dict.copy()), then the updates set
UrlClone(heap, self, updates) ==
    LET Copy(made) ==
            IF made.raised # "none" THEN made
            ELSE Gives(Alloc(made.heap, made.heap[self.default_headers]),
                       [f \in DOMAIN self |->
                           IF f \in DOMAIN updates THEN updates[f]
                           ELSE IF f \in {"url", "parts", "trailing_slash"}
                           THEN made.ret[f]
                           ELSE IF f = "default_headers" THEN NewId(made.heap)
                           ELSE self[f]])
    IN  Copy(WebPathNew(heap, self.url))

\* WebPath._replace(**patch)
UrlReplace(heap, self, patch) ==
    LET parts == [f \in DOMAIN self.parts |->
                     IF f \in DOMAIN patch THEN patch[f] ELSE self.parts[f]]
        text == UrlUnsplit(parts)
        u == IF self.trailing_slash /\ ~EndsWith(text, "/")
             THEN Append(text, "/") ELSE text
    IN  UrlClone(heap, self, [url |-> u, parts |-> UrlSplit(u)])

\* WebPath.__truediv__(other)
Segment(other) == Quote(LStrip(other))
TrueDiv(heap, self, other) ==
    UrlReplace(heap, self,
        [path |-> IF self.parts.path # <<>>
                  THEN RStrip(self.parts.path) \o <<"/">> \o Segment(other)
                  ELSE <<"/">> \o Segment(other)])

\* WebPath.parent
Parent(heap, self) ==
    LET parts == Pieces(RStrip(self.parts.path), "/")
        parent_path == JoinWith(SubSeq(parts, 1, Len(parts) - 1), "/")
    IN  UrlReplace(heap, self,
            [path |-> IF parent_path # <<>> THEN parent_path ELSE <<"/">>])

\* WebPath.ensure_trailing_slash
EnsureTrailingSlash(heap, self) ==
    IF EndsWith(self.url, "/") THEN Gives(heap, self)
    ELSE WebPathNew(heap, Append(self.url, "/"))

\* WebPath.query
Query(self) == Dict(ParseQsl(self.parts.query))

\* WebPath.with_query(**params): the loop over params.items()
RECURSIVE Merged(_, _)
Merged(merged, params) ==
    IF params = <<>> THEN merged
    ELSE LET key == params[1][1]
             value == params[1][2]
         IN  Merged(IF value.kind = "none" THEN PopItem(merged, key)
                    ELSE SetItem(merged, key, value),
                    Tail(params))
AsScalars(d) == [j \in 1..Len(d) |-> <<d[j][1], Scalar(d[j][2])>>]
WithQuery(heap, self, params) ==
    UrlReplace(heap, self,
        [query |-> UrlEncode(Merged(AsScalars(Query(self)), params))])

\* WebPath.without_query, WebPath.with_fragment
WithoutQuery(heap, self) == UrlReplace(heap, self, [query |-> <<>>])
WithFragment(heap, self, tag) == UrlReplace(heap, self, [fragment |-> Quote(tag)])

\* WebPath.with_headers(**headers)
WithHeaders(heap, self, headers) ==
    UrlClone(Alloc(heap, Update(heap[self.default_headers], headers)), self,
             [default_headers |-> NewId(heap)])

\* WebPath.with_cache, with_logging, with_rate_limit, with_retries
UrlWithCache(heap, self, ttl) ==
    UrlClone(heap, self, [cache_config |-> CacheConfig(ttl)])
WithLogging(heap, self) == UrlClone(heap, self, [enable_logging |-> TRUE])
UrlWithRateLimit(heap, self, interval) ==
    UrlClone(heap, self, [rate_limit |-> interval, last_request_time |-> 0])
UrlWithRetries(heap, self, retries) ==
    UrlClone(heap, self, [retries |-> retries, backoff |-> "0.3", jitter |-> "0.0"])

\* Client.__init__: base_url = WebPath(base_url), and the configuration the
\* Client keeps; "headers" is the dict it was given when that holds
\* anything, a new one otherwise
ClientNew(heap, base_url, headers, options) ==
    LET Config(made, given) ==
            [ heap |-> IF given THEN made.heap ELSE Alloc(made.heap, EmptyDict),
              ret |-> [f \in DOMAIN options \cup {"base_url", "headers", "session"} |->
                          IF f = "base_url" THEN made.ret
                          ELSE IF f = "headers"
                          THEN (IF given THEN headers ELSE NewId(made.heap))
                          ELSE IF f = "session" THEN "Session"
                          ELSE options[f]] ]
    IN  Config(WebPathNew(heap, base_url), headers # 0 /\ heap[headers] # EmptyDict)
\* the keyword arguments of Client other than headers, at their defaults
ClientDefaults ==
    [ cache_ttl |-> 0, retries |-> NoRetries, backoff |-> "None",
      jitter |-> "None", rate_limit |-> 0, enable_logging |-> FALSE,
      auto_follow |-> FALSE, timeout |-> "None" ]

\* WebPath.apply_config(config), with config the _config of a Client:
\* every key is in it
UrlApplyConfig(heap, self, config) ==
    LET merge == heap[config.headers] # EmptyDict
        heap1 == IF merge
                 THEN Alloc(heap, Update(heap[self.default_headers], heap[config.headers]))
                 ELSE heap
        updates == [ cache_config |-> CacheConfig(config.cache_ttl),
                     session |-> config.session,
                     retries |-> config.retries,
                     backoff |-> config.backoff,
                     jitter |-> config.jitter,
                     rate_limit |-> config.rate_limit,
                     enable_logging |-> config.enable_logging,
                     timeout |-> config.timeout,
                     allow_auto_follow |-> config.auto_follow ]
    IN  UrlClone(heap1, self,
            IF merge THEN [f \in DOMAIN updates \cup {"default_headers"} |->
                              IF f = "default_headers" THEN NewId(heap)
                              ELSE updates[f]]
            ELSE updates)

\* Client.with_config(**updates): _config.copy(), "headers" merged into a
\* new dict when given, then Client(...) on the result
ClientWithConfig(heap, self, updates) ==
    LET given == "headers" \in DOMAIN updates
        heap1 == IF given
                 THEN Alloc(heap, Update(heap[self.headers], updates.headers))
                 ELSE heap
    IN  ClientNew(heap1, self.base_url.url,
                  IF given THEN NewId(heap) ELSE self.headers,
                  [f \in DOMAIN ClientDefaults |->
                      IF f \in DOMAIN updates THEN updates[f] ELSE self[f]])

\* Client.path(segment): base_url / segment, then apply_config(_config)
PathOf(heap, self, segment) ==
    LET Configured(joined) == UrlApplyConfig(joined.heap, joined.ret, self)
    IN  Configured(TrueDiv(heap, self.base_url, segment))

----------------------------------------------------------------------------
(* Deriving WebPaths: a caller builds one from a text and derives others *)

\* how many WebPaths are derived, one from the other
MaxOps == 2

Http == <<"h", "t", "t", "p">>
Https == <<"h", "t", "t", "p", "s">>
HttpH == Http \o <<":", "/", "/", "h">>
\* the texts WebPath(...) is called with
UrlTexts ==
    { HttpH \o <<"/", "a">>,
      Https \o <<":", "/", "/", "h">>,
      HttpH \o <<"/", "a", "/">>,
      HttpH \o <<"/", "p", "?", "x", "=", "/">>,
      HttpH \o <<"/", "p", "?", "a", "=", "1", "&", "a", "=", "2", "&", "b", "=", "1">>,
      Http \o <<":", "/", "/", ":", "8", "/", "x">>,
      Http \o <<":", "/", "/", "/", "x">>,
      <<"f", "t", "p", ":", "/", "/", "h", "/", "x">>,
      <<"h", "/", "x">>,
      <<" ">> }
\* the segments joined with /
Segments ==
    { <<"b">>, <<"/", "b">>, <<"b", "/">>, <<>>, <<"b", "/", "/", "c">>,
      <<"x", " ", "y">> }
\* the keyword arguments with_query is called with
ParamSets ==
    { << <<<<"y">>, Scalar(<<"1">>)>> >>,
      << <<<<"b">>, Scalar(<<"2">>)>> >>,
      << <<<<"a">>, None>> >>,
      << <<<<"a">>, List(<< <<"1">>, <<"2">> >>)>> >>,
      << <<<<"x">>, None>>, <<<<"y">>, Scalar(<<"x", " ", "y">>)>> >> }

InitUrl ==
    /\ ExecutorIdle
    /\ InitResponses
    /\ cfg = NoCfg
    /\ idna = NoIdna
    /\ addr = [ pc |-> "start", heap |-> <<>>, text |-> <<>>, self |-> NoWebPath,
                ret |-> NoWebPath, op |-> "none", other |-> <<>>,
                params |-> <<>>, base |-> NoWebPath, segs |-> <<>>, n |-> 0 ]

\* the caller keeps what the operation `op` gave and derives from it next
Kept(op, out, other, params) ==
    addr' = [addr EXCEPT !.pc = IF out.raised # "none" THEN "raised" ELSE "built",
                         !.heap = out.heap,
                         !.self = addr.ret,
                         !.ret = out.ret,
                         !.op = op,
                         !.other = other,
                         !.params = params,
                         !.segs = IF op = "truediv" THEN Append(@, other) ELSE @,
                         !.n = @ + 1]
CanDerive == addr.pc = "built" /\ addr.n < MaxOps

UrlNew(text) ==
    /\ addr.pc = "start"
    /\ \E out \in {WebPathNew(addr.heap, text)} :
           addr' = [addr EXCEPT !.pc = IF out.raised # "none" THEN "raised" ELSE "built",
                                !.heap = out.heap, !.text = text, !.ret = out.ret,
                                !.base = out.ret, !.op = "init"]
    /\ UNCHANGED <<cfg, idna>>
    /\ UNCHANGED execVars
    /\ UNCHANGED respVars

UrlTrueDiv(other) ==
    /\ CanDerive
    /\ Kept("truediv", TrueDiv(addr.heap, addr.ret, other), other, <<>>)
    /\ UNCHANGED <<cfg, idna>>
    /\ UNCHANGED execVars
    /\ UNCHANGED respVars

UrlParent ==
    /\ CanDerive
    /\ Kept("parent", Parent(addr.heap, addr.ret), <<>>, <<>>)
    /\ UNCHANGED <<cfg, idna>>
    /\ UNCHANGED execVars
    /\ UNCHANGED respVars

UrlEnsureTrailingSlash ==
    /\ CanDerive
    /\ Kept("ensure_trailing_slash", EnsureTrailingSlash(addr.heap, addr.ret), <<>>, <<>>)
    /\ UNCHANGED <<cfg, idna>>
    /\ UNCHANGED execVars
    /\ UNCHANGED respVars

UrlWithQuery(params) ==
    /\ CanDerive
    /\ Kept("with_query", WithQuery(addr.heap, addr.ret, params), <<>>, params)
    /\ UNCHANGED <<cfg, idna>>
    /\ UNCHANGED execVars
    /\ UNCHANGED respVars

UrlWithoutQuery ==
    /\ CanDerive
    /\ Kept("without_query", WithoutQuery(addr.heap, addr.ret), <<>>, <<>>)
    /\ UNCHANGED <<cfg, idna>>
    /\ UNCHANGED execVars
    /\ UNCHANGED respVars

UrlWithFragment(tag) ==
    /\ CanDerive
    /\ Kept("with_fragment", WithFragment(addr.heap, addr.ret, tag), tag, <<>>)
    /\ UNCHANGED <<cfg, idna>>
    /\ UNCHANGED execVars
    /\ UNCHANGED respVars

UrlWithHeaders(headers) ==
    /\ CanDerive
    /\ Kept("with_headers", WithHeaders(addr.heap, addr.ret, headers), <<>>, <<>>)
    /\ UNCHANGED <<cfg, idna>>
    /\ UNCHANGED execVars
    /\ UNCHANGED respVars

\* with_cache(ttl), with_retries(n), with_rate_limit(r), with_logging()
UrlWith(option) ==
    /\ CanDerive
    /\ option \in {"with_cache", "with_retries", "with_rate_limit", "with_logging"}
    /\ Kept(option,
            CASE option = "with_cache" -> UrlWithCache(addr.heap, addr.ret, TTL)
              [] option = "with_retries" ->
                    UrlWithRetries(addr.heap, addr.ret, CountRetries(RetryTotal))
              [] option = "with_rate_limit" ->
                    UrlWithRateLimit(addr.heap, addr.ret, Interval)
              [] option = "with_logging" -> WithLogging(addr.heap, addr.ret),
            <<>>, <<>>)
    /\ UNCHANGED <<cfg, idna>>
    /\ UNCHANGED execVars
    /\ UNCHANGED respVars

\* apply_config(client._config) for a Client(headers = {"Y": "2"}, timeout = 5)
UrlApply ==
    /\ CanDerive
    /\ \E made \in {ClientNew(Alloc(addr.heap, HeaderY), HttpH, NewId(addr.heap),
                                [ClientDefaults EXCEPT !.timeout = "5"])} :
           Kept("apply_config", UrlApplyConfig(made.heap, addr.ret, made.ret),
                <<>>, <<>>)
    /\ UNCHANGED <<cfg, idna>>
    /\ UNCHANGED execVars
    /\ UNCHANGED respVars

NextUrl ==
    \/ \E text \in UrlTexts : UrlNew(text)
    \/ \E other \in Segments : UrlTrueDiv(other)
    \/ UrlParent
    \/ UrlEnsureTrailingSlash
    \/ \E params \in ParamSets : UrlWithQuery(params)
    \/ UrlWithoutQuery
    \/ UrlWithFragment(<<"t">>)
    \/ UrlWithHeaders(HeaderX)
    \/ \E option \in {"with_cache", "with_retries", "with_rate_limit", "with_logging"} :
           UrlWith(option)
    \/ UrlApply

SpecUrl == InitUrl /\ [][NextUrl]_vars

----------------------------------------------------------------------------
(* Reconfiguring a Client: with_config, and the WebPaths of both Clients *)

\* the Client the caller made, with or without headers
CfgOptions == {ClientDefaults, [ClientDefaults EXCEPT !.rate_limit = Interval]}
\* the keyword arguments with_config is called with
CfgUpdates ==
    { [timeout |-> "5"], [headers |-> HeaderY],
      [enable_logging |-> TRUE, auto_follow |-> TRUE] }
NoClient == [ClientNew(<<>>, <<>>, 0, ClientDefaults).ret EXCEPT !.headers = 0]

\* what a Client is configured with, its header dict read
ClientView(heap, c) ==
    [f \in DOMAIN ClientDefaults \cup {"headers"} |->
        IF f = "headers" THEN heap[c.headers] ELSE c[f]]

InitCfg ==
    /\ ExecutorIdle
    /\ InitResponses
    /\ addr = NoUrl
    /\ idna = NoIdna
    /\ \E given \in BOOLEAN, options \in CfgOptions :
       \E made \in {IF given
                      THEN ClientNew(<<HeaderX>>, HttpH \o <<"/", "a">>, 1, options)
                      ELSE ClientNew(<<>>, HttpH \o <<"/", "a">>, 0, options)} :
               cfg = [ pc |-> "client", heap |-> made.heap, self |-> made.ret,
                       ret |-> NoClient,
                       self_view |-> ClientView(made.heap, made.ret),
                       ret_view |-> ClientView(made.heap, made.ret),
                       changed |-> "none", path |-> NoWebPath, n |-> 0 ]

\* derived = client.with_config(**updates)
CfgWithConfig(updates) ==
    /\ cfg.pc = "client"
    /\ \E made \in {ClientWithConfig(cfg.heap, cfg.self, updates)} :
           cfg' = [cfg EXCEPT !.pc = "derived", !.heap = made.heap, !.ret = made.ret,
                              !.self_view = ClientView(made.heap, cfg.self),
                              !.ret_view = ClientView(made.heap, made.ret)]
    /\ UNCHANGED <<addr, idna>>
    /\ UNCHANGED execVars
    /\ UNCHANGED respVars

\* a later change through one of the two Clients: an item of its header
\* mapping is set
CfgSetHeader(who, name) ==
    /\ cfg.pc = "derived"
    /\ cfg.changed \in {"none", who}
    /\ cfg.n < MaxOps
    /\ LET id == IF who = "self" THEN cfg.self.headers ELSE cfg.ret.headers
       IN  cfg' = [cfg EXCEPT !.heap[id][name] = "9", !.changed = who, !.n = @ + 1]
    /\ UNCHANGED <<addr, idna>>
    /\ UNCHANGED execVars
    /\ UNCHANGED respVars

\* a WebPath is taken from one of the two Clients: client.path(segment)
CfgPath(who, segment) ==
    /\ cfg.pc = "derived"
    /\ cfg.n < MaxOps
    /\ \E made \in {PathOf(cfg.heap, IF who = "self" THEN cfg.self ELSE cfg.ret,
                             segment)} :
           cfg' = [cfg EXCEPT !.heap = made.heap, !.path = made.ret, !.n = @ + 1]
    /\ UNCHANGED <<addr, idna>>
    /\ UNCHANGED execVars
    /\ UNCHANGED respVars

NextCfg ==
    \/ \E updates \in CfgUpdates : CfgWithConfig(updates)
    \/ \E who \in {"self", "ret"}, name \in HeaderNames : CfgSetHeader(who, name)
    \/ \E who \in {"self", "ret"} : CfgPath(who, <<"b">>)

SpecCfg == InitCfg /\ [][NextCfg]_vars

----------------------------------------------------------------------------
(* _idna: the host memoization table (webpath/core.py) *)

\* _IDNA_CACHE_MAX_SIZE, 1000 in the program: the model keeps a table of
\* this many entries
IdnaCacheMaxSize == 2
\* how many conversions the threads ask for
MaxCalls == 4

Threads == {"t1", "t2"}
\* the netlocs converted; "bucher" stands for the non-ASCII "bücher"
Netlocs == {"h.de", "x.de", "bucher.de", "a..b"}

\* netloc.encode("idna").decode("ascii"), the netloc itself on UnicodeError
\* (an empty label)
IdnaEncode(netloc) ==
    IF netloc = "bucher.de" THEN "xn--bcher-kva.de" ELSE netloc

Range(f) == {f[j] : j \in DOMAIN f}

\* _IDNA_CACHE is an OrderedDict: a sequence of entries, the first one the
\* one popitem(last=False) takes.  `ins` and `used` tell when the entry was
\* inserted and when it was last inserted or looked up.
Holds(table, netloc) == \E j \in 1..Len(table) : table[j].netloc = netloc
EntryOf(table, netloc) ==
    table[CHOOSE j \in 1..Len(table) : table[j].netloc = netloc]
\* OrderedDict.move_to_end(netloc)
MoveToEnd_KeepsPlace(table, netloc) == table
MoveToEnd(table, netloc) ==
    Append(SelectSeq(table, LAMBDA en : en.netloc # netloc), EntryOf(table, netloc))
\* OrderedDict.popitem(last=False)
PopFirst(table) == Tail(table)
\* _IDNA_CACHE[netloc] = ascii_netloc
Store(table, en) ==
    IF Holds(table, en.netloc)
    THEN [j \in 1..Len(table) |->
             IF table[j].netloc = en.netloc
             THEN [table[j] EXCEPT !.ascii = en.ascii] ELSE table[j]]
    ELSE Append(table, en)

\* with _IDNA_CACHE_LOCK: a thread enters when no thread holds the lock
LockFree(lock) == lock = "free"

NoEviction == [any |-> FALSE, ins |-> 0, used |-> 0, first_ins |-> 0, first_used |-> 0]
Resting == [pc |-> "idle", netloc |-> "", ret |-> ""]

InitIdna ==
    /\ ExecutorIdle
    /\ InitResponses
    /\ addr = NoUrl
    /\ cfg = NoCfg
    /\ idna = [ pc |-> "run", table |-> <<>>, lock |-> "free",
                th |-> [t \in Threads |-> Resting],
                calls |-> 0, tick |-> 0, evicted |-> NoEviction ]

\* a thread calls _idna(netloc)
IdnaCall(t, netloc) ==
    /\ idna.th[t].pc = "idle"
    /\ idna.calls < MaxCalls
    /\ idna' = [idna EXCEPT !.th[t] = [pc |-> "lock", netloc |-> netloc, ret |-> ""],
                            !.calls = @ + 1]
    /\ UNCHANGED <<addr, cfg>>
    /\ UNCHANGED execVars
    /\ UNCHANGED respVars

\* line 16: the thread takes the lock
IdnaAcquire(t) ==
    /\ idna.th[t].pc = "lock"
    /\ LockFree(idna.lock)
    /\ idna' = [idna EXCEPT !.lock = t, !.th[t].pc = "lookup"]
    /\ UNCHANGED <<addr, cfg>>
    /\ UNCHANGED execVars
    /\ UNCHANGED respVars

\* lines 17-24: a hit moves the entry to the end and returns it, leaving
\* the with-block; a miss encodes the netloc
IdnaLookup(t) ==
    /\ idna.th[t].pc = "lookup"
    /\ LET netloc == idna.th[t].netloc
       IN  IF Holds(idna.table, netloc)
           THEN LET moved == MoveToEnd(idna.table, netloc)
                IN  idna' = [idna EXCEPT
                        !.table = [j \in 1..Len(moved) |->
                                      IF moved[j].netloc = netloc
                                      THEN [moved[j] EXCEPT !.used = idna.tick + 1]
                                      ELSE moved[j]],
                        !.tick = @ + 1,
                        !.lock = "free",
                        !.th[t] = [pc |-> "idle", netloc |-> netloc,
                                   ret |-> EntryOf(idna.table, netloc).ascii]]
           ELSE idna' = [idna EXCEPT !.th[t].pc = "evict",
                                     !.th[t].ret = IdnaEncode(netloc)]
    /\ UNCHANGED <<addr, cfg>>
    /\ UNCHANGED execVars
    /\ UNCHANGED respVars

\* lines 26-27: a full table gives up its first entry
IdnaEvict(t) ==
    /\ idna.th[t].pc = "evict"
    /\ idna' = IF Len(idna.table) >= IdnaCacheMaxSize
               THEN [idna EXCEPT
                        !.table = PopFirst(idna.table),
                        !.evicted =
                            [ any |-> TRUE,
                              ins |-> idna.table[1].ins,
                              used |-> idna.table[1].used,
                              first_ins |->
                                  CHOOSE i \in {en.ins : en \in Range(idna.table)} :
                                      \A en \in Range(idna.table) : i <= en.ins,
                              first_used |->
                                  CHOOSE i \in {en.used : en \in Range(idna.table)} :
                                      \A en \in Range(idna.table) : i <= en.used ],
                        !.th[t].pc = "insert"]
               ELSE [idna EXCEPT !.th[t].pc = "insert"]
    /\ UNCHANGED <<addr, cfg>>
    /\ UNCHANGED execVars
    /\ UNCHANGED respVars

\* lines 29-30: the entry is stored and returned, leaving the with-block
IdnaInsert(t) ==
    /\ idna.th[t].pc = "insert"
    /\ idna' = [idna EXCEPT
                   !.table = Store(idna.table,
                                   [ netloc |-> idna.th[t].netloc,
                                     ascii |-> idna.th[t].ret,
                                     ins |-> idna.tick + 1,
                                     used |-> idna.tick + 1 ]),
                   !.tick = @ + 1,
                   !.lock = "free",
                   !.th[t].pc = "idle"]
    /\ UNCHANGED <<addr, cfg>>
    /\ UNCHANGED execVars
    /\ UNCHANGED respVars

NextIdna ==
    \/ \E t \in Threads, netloc \in Netlocs : IdnaCall(t, netloc)
    \/ \E t \in Threads : IdnaAcquire(t)
    \/ \E t \in Threads : IdnaLookup(t)
    \/ \E t \in Threads : IdnaEvict(t)
    \/ \E t \in Threads : IdnaInsert(t)

SpecIdna == InitIdna /\ [][NextIdna]_vars

----------------------------------------------------------------------------
(* Claims about the request executor *)

\* caller c starts an http_request for verb v in this step
Starts(c, v) ==
    /\ req[c].pc = "idle"
    /\ req'[c].pc # "idle"
    /\ req'[c].mode = "sync"
    /\ req'[c].verb = v

\* C1: with a cache TTL of T on the Builder, an http_request for a
\* (method, URL) whose entry was stored at most T ticks ago returns the stored
\* status, headers and body, issues no transport call and does no rate-limit
\* or retry handling (the timestamp of the Builder stays as it is); one whose
\* entry was stored more than T ticks ago issues a transport call.
C1_CacheServesWithinTtl ==
    [][\A c \in Callers, v \in Verbs :
        LET e == cache[<<v, wp.url>>] IN
        (Starts(c, v) /\ wp.cache_config.present /\ wp.cache_config.ttl # 0 /\ e # NoEntry)
        => IF now - e.stored_at <= wp.cache_config.ttl
           THEN /\ req'[c].pc = "done"
                /\ req'[c].attempts = 0
                /\ req'[c].result.kind = "response"
                /\ req'[c].result.from_cache
                /\ req'[c].result.status = e.status
                /\ req'[c].result.headers = e.headers
                /\ req'[c].result.content = e.content
                /\ lastCallAt' = lastCallAt
                /\ wp' = wp
           ELSE /\ req'[c].pc = "inflight"
                /\ req'[c].attempts = 1
      ]_vars

\* C1 witness: a request was served from an entry exactly T ticks old
C1_Witness ==
    \E c \in Callers :
        /\ req[c].pc = "done"
        /\ req[c].result.from_cache
        /\ req[c].attempts = 0
        /\ cache[Key(c)] # NoEntry
        /\ now - cache[Key(c)].stored_at = wp.cache_config.ttl

\* caching is in force for the Builder
Caching == wp.cache_config.present /\ wp.cache_config.ttl # 0

\* C2: when two callers execute a request for the same (method, URL) with
\* caching enabled and no valid entry present, the check and the insert are
\* mutually exclusive, so their transport calls for that key never overlap:
\* at most one of them fetches.
C2_NoDuplicateFetch ==
    \A c1, c2 \in Callers :
        ( /\ c1 # c2
          /\ Caching
          /\ req[c1].mode = "sync" /\ req[c2].mode = "sync"
          /\ req[c1].verb = req[c2].verb
          /\ req[c1].pc \in {"inflight", "backoff"} )
        => req[c2].pc \notin {"inflight", "backoff"}

\* C3: under a rate limit, the rate-limit wait of an http_request is over and
\* the last-issued timestamp is set before its transport call is issued: no
\* call waits for the rate limit after its transport call, and while the
\* first transport call of a request is in flight the timestamp is the time
\* that call was issued.
C3_RateLimitBeforeCall ==
    \A c \in Callers :
        (req[c].mode = "sync" /\ wp.rate_limit # 0)
        => /\ req[c].pc = "ratesleep" => req[c].attempts = 0
           /\ (req[c].pc = "inflight" /\ req[c].attempts = 1 /\ wp.session)
              => wp.last_request_time = lastCallAt

\* C4: for a Client with a rate limit, the transport call of an http_request
\* issued through a Builder of the Client comes at least min_interval after
\* the previous transport call issued through the Client.
C4_ClientCallsSpaced ==
    [][\A c \in Callers, v \in Verbs :
        ( /\ Starts(c, v)
          /\ req'[c].pc = "inflight"
          /\ wp.session
          /\ wp.rate_limit # 0
          /\ lastCallAt # 0 )
        => now - lastCallAt >= wp.rate_limit
      ]_vars

\* the statuses and failures the adapter built for an integer count retries
RetriedOutcome(outcome) ==
    \/ outcome.failure # "none"
    \/ outcome.resp.status \in {502, 503, 504}
    \/ outcome.resp.retry_after /\ outcome.resp.status \in {413, 429, 503}

\* the request of caller c has ended in `outcome`
Ended(c) == req[c].mode = "sync" /\ req[c].pc \in {"done", "ratesleep"}

\* C5 as claimed: with an integer retry count N, an attempt that ends in any
\* 5xx status or a connection failure is retried until it succeeds or the
\* attempts are used up, and no other response is retried.
C5_Any5xxRetried ==
    \A c \in Callers :
        (req[c].mode = "sync" /\ EffectiveRetries(wp, client).kind = "count")
        => /\ ( /\ Ended(c)
                /\ \/ req[c].outcome.resp.status \in 500..599
                   \/ req[c].outcome.failure = "conn_reset" )
              => req[c].attempts = EffectiveRetries(wp, client).total + 1
           /\ req[c].pc = "backoff"
              => \/ req[c].outcome.resp.status \in 500..599
                 \/ req[c].outcome.failure # "none"

\* C5 as amended: with an integer retry count N, an attempt that ends in
\* status 502, 503 or 504, in a 413, 429 or 503 response that carries a
\* Retry-After header, or in a connection failure or timeout is retried until
\* an attempt ends otherwise or N + 1 attempts are made; an attempt that ends
\* in any other response (500 and 501 included) is never retried; without a
\* retry count nothing is retried.
C5_ForcelistRetried ==
    \A c \in Callers :
        req[c].mode = "sync"
        => LET rc == EffectiveRetries(wp, client) IN
           /\ rc.kind = "count"
              => /\ (Ended(c) /\ RetriedOutcome(req[c].outcome))
                    => req[c].attempts = rc.total + 1
                 /\ req[c].pc = "backoff" => RetriedOutcome(req[c].outcome)
                 /\ req[c].attempts <= rc.total + 1
           /\ rc.kind = "none"
              => req[c].pc # "backoff" /\ req[c].attempts <= 1

\* C5 witness: a request under an integer retry count used up its attempts on
\* 503 responses and ended with the last one
C5_Witness ==
    \E c \in Callers :
        /\ req[c].pc = "done"
        /\ req[c].mode = "sync"
        /\ EffectiveRetries(wp, client).kind = "count"
        /\ req[c].attempts = RetryTotal + 1
        /\ req[c].outcome.resp.status = 503
        /\ req[c].result.kind = "requests.HTTPError"

\* smart_retry_logic of examples/food_tracker.py: the wait it returns for a
\* response, 0 for None (Retry-After, when absent, counts as "5")
SmartRetryLogic(response) ==
    IF response.status >= 500 THEN 3
    ELSE IF response.status = 429 THEN 5
    ELSE 0

\* C6: when retries is a decision function, a response for which it returns
\* a positive wait is followed by one sleep and another attempt, so a request
\* hands back a response the function wants retried only after the attempts
\* are used up: never after a single attempt.
C6_DecisionFunctionObeyed ==
    \A c \in Callers :
        ( /\ Ended(c)
          /\ EffectiveRetries(wp, client).kind = "function"
          /\ req[c].result.kind \in {"response", "requests.HTTPError"}
          /\ SmartRetryLogic(req[c].outcome.resp) > 0 )
        => req[c].attempts > 1

\* C8: for http_request, a connection failure reaches the caller as
\* ConnectionError and a timeout, a timeout while connecting included, as
\* TimeoutError, never as a type of the transport library.
C8_DistinctErrorKinds ==
    \A c \in Callers :
        ( /\ req[c].mode = "sync"
          /\ req[c].pc = "done"
          /\ EffectiveRetries(wp, client).kind # "function"
          /\ req[c].outcome.failure # "none" )
        => IF req[c].outcome.failure = "conn_reset"
           THEN req[c].result.kind = "ConnectionError"
           ELSE req[c].result.kind = "TimeoutError"

\* caller c ends its transport call in this step
Completes(c) ==
    /\ req[c].mode = "sync"
    /\ req[c].pc = "inflight"
    /\ req'[c].pc \in {"done", "ratesleep"}

\* C9: an entry is written for a key only by an http_request for that key
\* that ends in a response with status 200..299 through a Builder with a
\* TTL, and holds that response and the time; a request that ends in any
\* other status, a connection error or a timeout leaves the store as it is.
\* (The lazy expiry of the read at the start of a request removes an entry;
\* it writes none.)
C9_CacheWriteOnly2xx ==
    [][/\ \A k \in Keys :
            (cache'[k] # cache[k] /\ cache'[k] # NoEntry)
            => \E c \in Callers :
                /\ Completes(c)
                /\ k = Key(c)
                /\ Caching
                /\ req'[c].result.kind = "response"
                /\ req'[c].result.status \in 200..299
                /\ cache'[k] = Entry(req'[c].result.status, req'[c].result.headers,
                                     req'[c].result.content, now)
       /\ \A c \in Callers :
            ( /\ Completes(c)
              /\ ~(req'[c].result.kind = "response" /\ req'[c].result.status \in 200..299) )
            => cache' = cache
       /\ \A c \in Callers :
            ( /\ Completes(c)
              /\ Caching
              /\ req'[c].result.kind = "response"
              /\ req'[c].result.status \in 200..299 )
            => cache'[Key(c)].stored_at = now
      ]_vars

\* C9 witness: a 304 response came back through a caching Builder and the
\* key has no entry
C9_Witness ==
    \E c \in Callers :
        /\ req[c].pc = "done"
        /\ req[c].mode = "sync"
        /\ Caching
        /\ req[c].result.kind = "response"
        /\ req[c].result.status = 304
        /\ cache[Key(c)] = NoEntry

\* the error kinds of the executor's contract
ErrorKind(kind) ==
    IF kind \in {"ConnectionError", "httpx.ConnectError"} THEN "ConnectionError"
    ELSE IF kind \in {"TimeoutError", "httpx.ConnectTimeout", "httpx.ReadTimeout"}
    THEN "Timeout"
    ELSE IF kind = "requests.HTTPError" THEN "HttpStatusError"
    ELSE kind

\* C10: get through http_request and aget on the same Builder, each with one
\* transport call that ends in the same response, hand back the same status
\* and body or fail with the same kind of error.
C10_SameResultBothForms ==
    \A c1, c2 \in Callers :
        ( /\ req[c1].pc = "done" /\ req[c1].mode = "sync" /\ req[c1].verb = "get"
          /\ req[c2].pc = "done" /\ req[c2].mode = "async"
          /\ req[c1].attempts = 1 /\ req[c2].attempts = 1
          /\ req[c1].outcome.failure = "none"
          /\ req[c1].outcome = req[c2].outcome )
        => /\ ErrorKind(req[c1].result.kind) = ErrorKind(req[c2].result.kind)
           /\ req[c1].result.kind = "response"
              => /\ req[c1].result.status = req[c2].result.status
                 /\ req[c1].result.content = req[c2].result.content

\* the value the message must quote: that of the first of error, message,
\* error_description, detail the JSON object holds
FirstErrorField(body) ==
    IF "error" \in body.keys THEN <<body.tag, "error">>
    ELSE IF "message" \in body.keys THEN <<body.tag, "message">>
    ELSE IF "error_description" \in body.keys THEN <<body.tag, "error_description">>
    ELSE IF "detail" \in body.keys THEN <<body.tag, "detail">>
    ELSE <<>>

\* C7 as claimed: a final response with status 400..599 is raised as the
\* status error, and its message holds the hostname, the numeric status code
\* and, for a JSON object with an error, message or detail field, that
\* field's value.
C7_MessageHasStatusCode ==
    (errOut # NoResult /\ errIn.status \in 400..599)
    => /\ errOut.kind = "requests.HTTPError"
       /\ errOut.msg.hostname \/ errOut.msg.url
       /\ errOut.msg.status
       /\ errIn.body.kind = "object" => errOut.msg.details = FirstErrorField(errIn.body)

\* C7 as amended: a final response with status 400..599 is raised as the
\* status error and no other response is; the message names the hostname
\* (for 404 the whole URL) and, for a JSON object with an error, message,
\* error_description or detail field, the value of the first of these the
\* object holds (nothing for another body); it holds the numeric status code
\* exactly for the statuses other than 401, 403, 404, 429 and 500..599.
C7_StatusErrorMessage ==
    errOut # NoResult
    => IF errIn.status \in 400..599
       THEN /\ errOut.kind = "requests.HTTPError"
            /\ errOut.status = errIn.status
            /\ errOut.msg.hostname \/ errOut.msg.url
            /\ errOut.msg.status <=>
                 (errIn.status \notin {401, 403, 404, 429} /\ errIn.status < 500)
            /\ errOut.msg.details =
                 IF errIn.body.kind = "object" THEN FirstErrorField(errIn.body) ELSE <<>>
       ELSE errOut.kind = "response"

\* C7 witness: a 401 whose JSON object holds error_description and detail
\* was raised with the error_description in the message
C7_Witness ==
    /\ errOut.kind = "requests.HTTPError"
    /\ errIn.status = 401
    /\ errIn.body.keys = {"error_description", "detail"}
    /\ errOut.msg.details = <<"E", "error_description">>

----------------------------------------------------------------------------
(* Claims about the response navigator *)

\* the default a caller passes to find to tell "nothing found" from any
\* value a response can hold
Sentinel == Object(0)

\* C11: has_path(path) is true if and only if find(path, sentinel), with a
\* sentinel no response holds, returns something other than the sentinel;
\* so it is false for an empty path, for a path without a match or with a
\* null value, and for a response without JSON.
C11_HasPathIffFound ==
    navOut.op = "has_path" =>
        (navOut.result.b <=> ~Is(Find(doc, navOut.expr, Sentinel), Sentinel))

\* what the evaluator makes of the path of the last operation on the JSON
\* value of the response
Evaluated == JmesSearch(navOut.expr, JsonData(doc))
NoMatch ==
    \/ navOut.expr = <<>>
    \/ doc.body.t = "text"
    \/ Evaluated.raised
    \/ Evaluated.value.t = "null"

\* C12: find_all(path) returns the sequence the path evaluates to, a
\* one-element sequence holding the value when the path evaluates to
\* anything else (0, false and "" included), and the empty sequence when
\* nothing matches or the evaluation fails.
C12_FindAllWrapsEveryValue ==
    navOut.op = "find_all" =>
        navOut.result = (IF NoMatch THEN JList(<<>>)
                         ELSE IF Evaluated.value.t = "list" THEN Evaluated.value
                         ELSE JList(<<Evaluated.value>>))

\* C13: find(path, default) returns the evaluator's result on the JSON
\* value of the response, and default exactly when the path is empty, the
\* response has no JSON, the evaluator raises or the result is null.
C13_FindDefaultExactly ==
    navOut.op = "find" =>
        navOut.result = (IF NoMatch THEN navOut.dflt ELSE Evaluated.value)

\* every <<key, value>> member of the objects of a JSON tree, at any depth,
\* in document order
RECURSIVE Members(_)
RECURSIVE MembersFrom(_, _)
MembersFrom(v, j) ==
    IF v.t = "obj"
    THEN IF j > Len(v.fields) THEN <<>>
         ELSE <<v.fields[j]>> \o Members(v.fields[j][2]) \o MembersFrom(v, j + 1)
    ELSE IF j > Len(v.items) THEN <<>>
         ELSE Members(v.items[j]) \o MembersFrom(v, j + 1)
Members(v) == IF IsContainer(v) THEN MembersFrom(v, 1) ELSE <<>>

\* how deep the objects and sequences of a JSON value nest, and how many
\* of them there are
RECURSIVE Nesting(_)
RECURSIVE Containers(_)
Nesting(v) ==
    IF ~IsContainer(v) THEN 0
    ELSE LET c == Children(v)
             below == {Nesting(c[j]) : j \in 1..Len(c)} \cup {0}
         IN  1 + CHOOSE n \in below : \A k \in below : k <= n
RECURSIVE SumSeq(_, _)
SumSeq(f, j) == IF j > Len(f) THEN 0 ELSE f[j] + SumSeq(f, j + 1)
Containers(v) ==
    IF ~IsContainer(v) THEN 0
    ELSE LET c == Children(v)
         IN  1 + SumSeq([j \in 1..Len(c) |-> Containers(c[j])], 1)

\* the values of the members whose key passes `test`
ValuesWhere(pairs, test(_)) ==
    LET hits == SelectSeq(pairs, LAMBDA p : test(p[1]))
    IN  [j \in 1..Len(hits) |-> hits[j][2]]
Folded(key) == IF navOut.case_sensitive THEN key ELSE Lower(key)

\* the walk of the last search: one call per object or sequence, as deep
\* as the JSON nests
WalkIsTreeWalk ==
    Truthy(JsonData(doc)) /\ navOut.key.name # <<>> =>
        /\ SearchCalls(JsonData(doc)) = Containers(JsonData(doc))
        /\ SearchDepth(JsonData(doc)) = Nesting(JsonData(doc))

\* C14, as claimed: search(key) returns the values of exactly the members
\* whose key equals the given key (letter case ignored unless
\* case_sensitive), visiting each object once, as deep as the JSON nests.
C14_SearchEqualKeys ==
    navOut.op = "search" =>
        /\ navOut.result.items =
               ValuesWhere(Members(JsonData(doc)),
                           LAMBDA k : Folded(k) = Folded(navOut.key.name))
        /\ WalkIsTreeWalk

\* C14, amended: search(key) with a non-empty key returns, in document
\* order, the values of exactly the members whose key contains the given
\* key as a substring (letter case ignored unless case_sensitive), and
\* with an empty key nothing; the walk visits each object and sequence
\* once and is as deep as the JSON nests.
C14_SearchContainedKeys ==
    navOut.op = "search" =>
        /\ navOut.result.items =
               (IF navOut.key.name = <<>> THEN <<>>
                ELSE ValuesWhere(Members(JsonData(doc)),
                                 LAMBDA k : \E j \in 0..Len(k) :
                                     /\ j + Len(navOut.key.name) <= Len(k)
                                     /\ \A n \in 1..Len(navOut.key.name) :
                                            Folded(k)[j + n] = Folded(navOut.key.name)[n]))
        /\ WalkIsTreeWalk

\* a search found a value under a key longer than the one searched for, two
\* levels down
C14_Witness ==
    /\ navOut.op = "search"
    /\ navOut.key.name = kId
    /\ ~navOut.case_sensitive
    /\ doc.body = DocTree
    /\ Len(navOut.result.items) = 5

\* the value response / key addresses, if any
Addressed ==
    LET data == JsonData(doc)
    IN  IF data.t = "obj" /\ navOut.key.k = "name" /\ HasKey(data, navOut.key.name)
        THEN GetKey(data, navOut.key.name)
        ELSE IF data.t = "list" /\ ~IntOf(navOut.key).raised
        THEN ListItem(data.items, IntOf(navOut.key).i).value
        ELSE JNull

\* C15: response / key issues a GET only for an http(s) URL, with
\* auto-follow enabled on the Builder and a host that is not loopback;
\* with auto-follow disabled it returns the value, and a loopback URL with
\* auto-follow enabled is a security error; for objects and for sequences.
C15_FollowOnlyWhenAllowed ==
    navOut.op = "navigate" =>
        /\ navOut.result.t = "request" =>
               /\ IsHttpUrl(Addressed)
               /\ doc.auto_follow
               /\ Hostname(Addressed) \notin LocalHosts
        /\ IsHttpUrl(Addressed) /\ ~doc.auto_follow => navOut.result = Addressed
        /\ IsHttpUrl(Addressed) /\ doc.auto_follow /\ Hostname(Addressed) \in LocalHosts =>
               navOut.result = NavRaise("ValueError")

----------------------------------------------------------------------------
(* Claims about the pagination walker *)

YieldedUrls == {walk.yielded[j].url : j \in 1..Len(walk.yielded)}

\* the next URL the generator found in the page it yielded last
LastNextUrl ==
    NextUrlOf(walk.yielded[Len(walk.yielded)], walk.next_key)

\* at most max_pages pages, no two from the same URL, and a walk that has
\* ended has one of the reasons to end
C16_Safe ==
    /\ Len(walk.yielded) <= walk.max_pages
    /\ \A i, j \in 1..Len(walk.yielded) :
           i # j => walk.yielded[i].url # walk.yielded[j].url
    /\ walk.pc = "end" =>
           \/ walk.stop = "no_next"
              /\ (~Truthy(LastNextUrl) \/ LastNextUrl.t # "str")
           \/ walk.stop = "visited" /\ walk.current_page.url \in YieldedUrls
           \/ walk.stop = "max_pages" /\ Len(walk.yielded) = walk.max_pages
           \/ walk.stop = "error" /\ walk.yielded # <<>>

\* C16: paginate(max_pages) yields at most max_pages pages, no two of them
\* with the same URL, and always ends, also when every page names the same
\* next URL: it stops when no next URL is found, when the page fetched was
\* already visited, or when max_pages pages were yielded (or when fetching
\* failed, C17).
C16_PaginateTerminates == []C16_Safe /\ <>(walk.pc = "end")

\* the walk was stopped by the cycle guard: the second page named itself
\* as the next one
C16_Witness ==
    /\ walk.pc = "end"
    /\ walk.stop = "visited"
    /\ Len(walk.yielded) = 2
    /\ walk.yielded[2].url = P2
    /\ walk.current_page.url = P2
    /\ walk.max_pages = 3

\* C17: when getting the next page fails (connection error, timeout,
\* status error, a next URL no Builder accepts), the generator ends
\* without raising, and the pages yielded before stay as they were.
C17_FetchFailureEndsQuietly ==
    [][ walk.pc # "end" /\ walk'.pc = "end" /\ walk'.stop = "error" =>
            /\ walk'.raised = "none"
            /\ walk'.yielded = walk.yielded
            /\ Len(walk'.all_results) >= Len(walk.all_results)
            /\ SubSeq(walk'.all_results, 1, Len(walk.all_results)) = walk.all_results
      ]_vars

\* the GET of the third page failed after two pages were yielded
C17_Witness ==
    /\ walk.pc = "end"
    /\ walk.stop = "error"
    /\ walk.target # JNull
    /\ Len(walk.yielded) = 2
    /\ walk.raised = "none"

\* the list under the first container key that holds a list; <<>> with
\* found = FALSE when no container key does
FirstContainer(data) ==
    LET holds(j) == /\ HasKey(data, ContainerKeys[j])
                    /\ GetKey(data, ContainerKeys[j]).t = "list"
    IN  IF \E j \in 1..Len(ContainerKeys) : holds(j)
        THEN LET first == CHOOSE j \in 1..Len(ContainerKeys) :
                              holds(j) /\ \A k \in 1..(j - 1) : ~holds(k)
             IN  [found |-> TRUE, items |-> GetKey(data, ContainerKeys[first]).items]
        ELSE [found |-> FALSE, items |-> <<>>]

\* a value flattened: the elements of a list, nothing for null, the value
\* itself otherwise
Flattened(v) ==
    IF v.t = "list" THEN v.items ELSE IF v.t = "null" THEN <<>> ELSE <<v>>

\* the items of a page as claimed: whatever is no sequence and has no
\* container list is one item
ClaimedItems(data) ==
    IF walk.data_key # <<>> THEN Flattened(ExtractNestedValue(data, walk.data_key))
    ELSE IF data.t = "list" THEN data.items
    ELSE IF data.t = "obj" /\ FirstContainer(data).found THEN FirstContainer(data).items
    ELSE <<data>>

\* the items of a page as paginate_all takes them: a body that is neither
\* a sequence nor an object has none
TakenItems(data) ==
    IF walk.data_key # <<>> THEN Flattened(ExtractNestedValue(data, walk.data_key))
    ELSE IF data.t = "list" THEN data.items
    ELSE IF data.t # "obj" THEN <<>>
    ELSE IF FirstContainer(data).found THEN FirstContainer(data).items
    ELSE <<data>>

RECURSIVE ConcatItems(_, _)
ConcatItems(items(_), j) ==
    IF j > Len(walk.yielded) THEN <<>>
    ELSE items(JsonData(walk.yielded[j])) \o ConcatItems(items, j + 1)

\* C18, as claimed: paginate_all returns, in page order, the items of the
\* pages: the value at data_key flattened; else the body if it is a
\* sequence; else the list under the first of data, results, items,
\* records, content; else the whole page as one item.
C18_ItemsOfEveryPage ==
    walk.pc = "end" => walk.all_results = ConcatItems(ClaimedItems, 1)

\* C18, amended: as claimed, except that a page whose body is JSON but
\* neither a sequence nor an object adds nothing (a body that is no JSON
\* counts as the empty object and is one item).
C18_ItemsOfPagesTaken ==
    walk.pc = "end" => walk.all_results = ConcatItems(TakenItems, 1)

\* two pages were drained: items of the first, results of the second
\* (whose data is no list)
C18_Witness ==
    /\ walk.pc = "end"
    /\ walk.data_key = <<>>
    /\ Len(walk.yielded) = 2
    /\ walk.yielded[2].body = BodyLinksResults
    /\ walk.all_results = <<JNum(1), JNum(2), JNum(3)>>

----------------------------------------------------------------------------
(* Claims about the download manager *)

\* download_file has ended by raising an Exception
DlFailed == dl.pc = "done" /\ dl.result.kind \notin {"returned"} \cup Interrupts

\* C19: if any exception (a transport or I/O error) occurs while a
\* download streams the body to disk, the partly written file is deleted
\* before the error propagates: after a failed download there is no file
\* at the destination path.
C19_NoFileAfterFailure ==
    DlFailed => ~dl.file.exists

\* the transport failed after a block was written to the destination
C19_Witness ==
    /\ DlFailed
    /\ dl.result.kind = "requests.ChunkedEncodingError"
    /\ dl.received = 2
    /\ dl.stream[1] # 0
    /\ ~dl.file.exists

\* the body was streamed to its end
StreamedAll ==
    /\ dl.pc = "done"
    /\ dl.result.kind = "returned" \/ dl.result.template # "none"

\* the blocks of the body that hold data, in order
RECURSIVE DataBlocks(_)
DataBlocks(stream) ==
    IF stream = <<>> THEN <<>>
    ELSE (IF Head(stream) # 0 THEN <<Head(stream)>> ELSE <<>>) \o DataBlocks(Tail(stream))

\* the digest of the data of the body, as hexdigest() prints it
DigestOfBody == HexDigest(HashOf(DataBlocks(dl.stream), HashNew))

\* two digests that differ at most in the case of their letters
SameDigest(a, b) ==
    /\ Len(a) = Len(b)
    /\ \A j \in 1..Len(a) : a[j] = b[j] \/ UpperChar(a[j]) = b[j] \/ a[j] = UpperChar(b[j])

\* C20: after a body was streamed to its end with an expected checksum
\* given, the digest computed is compared with it ignoring letter case:
\* if they are equal, the download returns and the file holds every block
\* of the body in order; if not, the file is deleted and the download
\* fails with a checksum mismatch that names the expected and the actual
\* digest.
C20_ChecksumDecides ==
    StreamedAll /\ dl.checksum # <<>> =>
        IF SameDigest(DigestOfBody, dl.checksum)
        THEN /\ dl.result = Returned
             /\ dl.file = File(DataBlocks(dl.stream))
        ELSE /\ dl.result.kind = "ValueError"
             /\ dl.result.expected = dl.checksum
             /\ dl.result.actual = DigestOfBody
             /\ ~dl.file.exists

\* a download over an older file returned: the checksum was given in upper
\* case and the file holds the two blocks of the body
C20_Witness ==
    /\ StreamedAll
    /\ dl.result = Returned
    /\ dl.checksum # <<>>
    /\ dl.checksum # DigestOfBody
    /\ dl.stream = <<2, 1>>
    /\ dl.file = File(<<2, 1>>)

----------------------------------------------------------------------------
(* Claims about URL values *)

\* runs of "/" taken for one
RECURSIVE Collapse(_)
Collapse(s) ==
    IF Len(s) < 2 THEN s
    ELSE IF s[1] = "/" /\ s[2] = "/" THEN Collapse(Tail(s))
    ELSE <<s[1]>> \o Collapse(Tail(s))
\* the path, a separator and the percent-encoded segment, for each segment
RECURSIVE Concatenated(_, _)
Concatenated(path, segs) ==
    IF segs = <<>> THEN path
    ELSE Concatenated(path \o <<"/">> \o Quote(segs[1]), Tail(segs))
DoubleSlash(path) ==
    \E j \in 1..(Len(path) - 1) : path[j] = "/" /\ path[j + 1] = "/"
\* the WebPath at hand came from the constructed one by joins alone
OnlyJoined == /\ addr.pc = "built"
              /\ addr.segs # <<>>
              /\ Len(addr.segs) = addr.n

\* C21: after any sequence of joins on a constructed WebPath, the path is
\* the slash-normalized concatenation of the base path and the
\* percent-encoded segments, with one separator between consecutive
\* segments and no double slash anywhere
C21_JoinIsSlashNormalized ==
    OnlyJoined =>
        /\ addr.ret.parts.path =
               Collapse(Concatenated(addr.base.parts.path, addr.segs))
        /\ ~DoubleSlash(addr.ret.parts.path)

\* the name=value pairs a mapping stands for, a list value repeated
RECURSIVE Repeated(_)
Repeated(d) ==
    IF d = <<>> THEN <<>>
    ELSE [j \in 1..Len(d[1][2].vals) |-> <<d[1][1], d[1][2].vals[j]>>]
         \o Repeated(Tail(d))

\* C22: the query of with_query(params) is the existing query mapping merged
\* with params (None removes a key, a list is repeated, a scalar overwrites),
\* and the query after without_query is empty
C22_QueryIsMerged ==
    /\ addr.pc = "built" /\ addr.op = "with_query" =>
           ParseQsl(addr.ret.parts.query) =
               Repeated(Merged(AsScalars(Query(addr.self)), addr.params))
    /\ addr.pc = "built" /\ addr.op = "without_query" =>
           addr.ret.parts.query = <<>>

\* what the claim requires of a text: a scheme, http or https, and a host
Acceptable(text) ==
    LET parts == UrlSplit(Strip(text))
    IN  /\ parts.scheme \in {Http, Https}
        /\ Before(LastPiece(parts.netloc, "@"), ":") # <<>>

\* C23: WebPath(text) raises when the scheme is missing or not http/https or
\* the host is missing, so every WebPath, constructed or derived, has an
\* http or https scheme and a host that is not empty
C23_SchemeAndHost ==
    /\ addr.op = "init" /\ ~Acceptable(addr.text) => addr.pc = "raised"
    /\ addr.pc = "built" =>
           /\ addr.ret.parts.scheme \in {Http, Https}
           /\ UrlHost(addr.ret) # <<>>

\* the configuration a request through the WebPath b is issued with
ConfigOf(heap, b) ==
    [ default_headers |-> heap[b.default_headers],
      cache_config |-> b.cache_config,
      retries |-> b.retries,
      backoff |-> b.backoff,
      jitter |-> b.jitter,
      rate_limit |-> b.rate_limit,
      enable_logging |-> b.enable_logging,
      allow_auto_follow |-> b.allow_auto_follow,
      timeout |-> b.timeout,
      session |-> b.session ]
\* the configuration fields an operation sets explicitly
SetBy(op) ==
    CASE op = "with_headers" -> {"default_headers"}
      [] op = "with_cache" -> {"cache_config"}
      [] op = "with_retries" -> {"retries", "backoff", "jitter"}
      [] op = "with_rate_limit" -> {"rate_limit"}
      [] op = "with_logging" -> {"enable_logging"}
      [] op = "apply_config" -> DOMAIN ConfigOf(addr.heap, addr.ret)
      [] OTHER -> {}

\* C28: a WebPath derived from a configured one carries every configuration
\* field the operation does not set
C28_ConfigurationCarriedOver ==
    addr.pc = "built" /\ addr.n > 0 =>
        \A f \in DOMAIN ConfigOf(addr.heap, addr.ret) \ SetBy(addr.op) :
            ConfigOf(addr.heap, addr.ret)[f] = ConfigOf(addr.heap, addr.self)[f]

\* the pairs whose name is not a key of params, in their order
Unnamed(pairs, params) ==
    SelectSeq(pairs, LAMBDA kv : \A j \in 1..Len(params) : params[j][1] # kv[1])

\* C30: with_query(params) keeps every existing parameter it does not name,
\* every value of a repeated name included, in the existing order (checked
\* on the WebPaths that append no slash to the URL they build)
C30_UnnamedParametersKept ==
    addr.pc = "built" /\ addr.op = "with_query" /\ ~addr.self.trailing_slash =>
        Unnamed(ParseQsl(addr.ret.parts.query), addr.params) =
            Unnamed(ParseQsl(addr.self.parts.query), addr.params)

----------------------------------------------------------------------------
(* Claims about copy-on-write configuration *)

\* C24: a with_* call returns a new object and leaves the receiver as it
\* was; the header mapping of the result is not the receiver's, so a later
\* change through one of the two is not visible through the other
C24_HeadersNotAliased ==
    cfg.pc = "derived" =>
        /\ cfg.ret.headers # cfg.self.headers
        /\ cfg.changed # "self" => ClientView(cfg.heap, cfg.self) = cfg.self_view
        /\ cfg.changed # "ret" => ClientView(cfg.heap, cfg.ret) = cfg.ret_view

----------------------------------------------------------------------------
(* Claims about the host memoization table *)

\* the threads between taking the lock and leaving the with-block
InsideIdna == {t \in Threads : idna.th[t].pc \in {"lookup", "evict", "insert"}}
IdnaBounded ==
    /\ Len(idna.table) <= IdnaCacheMaxSize
    /\ Cardinality(InsideIdna) <= 1
    /\ \A j \in 1..Len(idna.table) :
           idna.table[j].ascii = IdnaEncode(idna.table[j].netloc)

\* C25 as stated: the table never holds more entries than its capacity, one
\* thread at a time checks, evicts and inserts, and the entry evicted from a
\* full table is the one inserted earliest
C25_EvictsEarliestInserted ==
    /\ IdnaBounded
    /\ idna.evicted.any => idna.evicted.ins = idna.evicted.first_ins

\* C25, amended: the table never holds more entries than its capacity, one
\* thread at a time checks, evicts and inserts, and the entry evicted from a
\* full table is the one least recently inserted or looked up
C25_EvictsLeastRecentlyUsed ==
    /\ IdnaBounded
    /\ idna.evicted.any => idna.evicted.used = idna.evicted.first_used

\* a full table gave up an entry that was not the earliest inserted
C25_Witness ==
    /\ idna.evicted.any
    /\ idna.evicted.ins # idna.evicted.first_ins
    /\ Len(idna.table) = IdnaCacheMaxSize

----------------------------------------------------------------------------
(* Claims about the lazily parsed JSON value *)

\* C26: over any sequence of navigator operations on one response, the body
\* is parsed at most once, whatever the body is: a body that does not parse
\* and a body whose JSON value is null included
C26_ParsedAtMostOnce == doc.parses <= 1

\* C27: a download abandoned while streaming by an interrupt or a
\* cancellation, raised in the middle of writing the blocks, leaves no
\* half-written file at the destination (checked on the downloads that had
\* taken a block from the stream)
C27_NoFileAfterInterrupt ==
    dl.pc = "done" /\ dl.result.kind \in Interrupts /\ dl.received > 0 =>
        ~dl.file.exists

\* C29: a download that fails before it opens the destination (the request
\* fails, or the algorithm is unknown) leaves a file that was there before
\* the call as it was
C29_OlderFileUntouched ==
    dl.pc = "done" /\ ~dl.opened => dl.file = dl.before

====
